---- MODULE Spec2Model ----
(***************************************************************************)
(* Turn-level state machines of the tau2 multi-agent coordination drivers  *)
(* (static plan, adaptive plan, hard verification, two-tier, three-tier    *)
(* and route-once routers).  A turn is one call of generate_next_message;  *)
(* every role invocation (the call of generate) is one step of the turn,   *)
(* whose response or failure is chosen from a bounded set.                 *)
(***************************************************************************)
EXTENDS Integers, Sequences, FiniteSets, TLC

VARIABLES
    caller,     \* what the caller of generate_next_message keeps when it drives several
                \* conversations on the driver instance (None when it drives one)
    llm,        \* self.llm: the optional model identifier
    llm_args,   \* self.llm_args: the generation option mapping
    driver,     \* which driver class the conversation runs on
    tools,      \* self.tools, as the sequence of tool names
    state,      \* the Conversation State object handed to generate_next_message
    pc,         \* position inside generate_next_message ("idle" between turns)
    message,    \* the incoming message of the turn in progress
    local,      \* local variables of generate_next_message
    returned,   \* Optional: the message the last finished turn returned
    turn,       \* number of generate_next_message calls made so far
    acct,       \* observation of the turn's role invocations (not program state)
    log         \* observation: one entry per turn started (not program state)

vars == <<caller, llm, llm_args, driver, tools, state, pc, message, local, returned, turn, acct, log>>

(***************************************************************************)
(* Bounds                                                                  *)
(***************************************************************************)
\* calls of generate_next_message made in a hard-verification conversation
MaxTurnsHard == 1

(***************************************************************************)
(* Optional values: None is the empty tuple, a present value a 1-tuple.    *)
(***************************************************************************)
None == <<>>
Some(x) == <<x>>
IsNone(o) == o = <<>>
Val(o) == o[1]

\* cost as a number, None counting 0 (Python: `x.cost or 0.0`)
CostOf(c) == IF IsNone(c) THEN 0 ELSE Val(c)

\* dict.get(key, 0) on a usage mapping
UsageGet(u, k) == IF k \in DOMAIN u THEN u[k] ELSE 0

\* token count of an optional usage mapping, None counting 0
TokensOf(u, k) == IF IsNone(u) THEN 0 ELSE UsageGet(Val(u), k)

\* Python truthiness of an optional cost (`if proposed.cost:`)
CostTruthy(c) == ~IsNone(c) /\ Val(c) # 0

\* Python truthiness of an optional usage dict (`if v_usage:`)
UsageTruthy(u) == ~IsNone(u) /\ DOMAIN Val(u) # {}

\* Python truthiness of optional text (`if msg.content`)
TextTruthy(c) == ~IsNone(c) /\ Val(c) # ""

\* metadata[key] = value on a dict
Put(md, k, v) == (k :> v) @@ md

ZeroUsage == [completion_tokens |-> 0, prompt_tokens |-> 0]

(***************************************************************************)
(* Messages                                                                *)
(***************************************************************************)
SystemMessage(c) == [role |-> "system", content |-> c]
UserMessage(c) == [role |-> "user", content |-> c]
ToolMessage(id, c, err) == [role |-> "tool", id |-> id, content |-> c, error |-> err]
MultiToolMessage(tms) == [role |-> "tool", tool_messages |-> tms]
ToolCall(id, name) == [id |-> id, name |-> name, requestor |-> "assistant"]
AssistantMessage(c, tcs, cost, usage, md) ==
    [role |-> "assistant", content |-> c, tool_calls |-> tcs,
     cost |-> cost, usage |-> usage, metadata |-> md]

IsMultiTool(m) == "tool_messages" \in DOMAIN m

\* the fields of an assistant message that a transcript entry is read for:
\* no driver reads cost, usage or metadata of a stored message
Stored(m) == [role |-> m.role, content |-> m.content, tool_calls |-> m.tool_calls]

\* a plausible slip: a batch is stored as one entry
AddIncomingWhole(msgs, m) == Append(msgs, m)

\* state.messages.extend(message.tool_messages) / state.messages.append(message)
AddIncoming(msgs, m) == IF IsMultiTool(m) THEN msgs \o m.tool_messages ELSE Append(msgs, m)

\* the messages the incoming message adds to the transcript
IncomingOf(m) == IF IsMultiTool(m) THEN m.tool_messages ELSE <<m>>

TRANSFER_TOOL_NAME == "transfer_to_human_agents"

(***************************************************************************)
(* Inputs: incoming events and role responses                              *)
(***************************************************************************)
ToolOk == ToolMessage("call_1", Some("line active"), FALSE)
ToolErr == ToolMessage("call_2", Some("Error: not found"), TRUE)

UserHello == UserMessage(Some("my phone has no signal"))

IncomingMessages == { UserHello, ToolOk, ToolErr, MultiToolMessage(<<ToolOk, ToolErr>>) }

\* the hard-verification driver treats every incoming message alike, a batch excepted
HardIncomingMessages == { UserHello, ToolOk, MultiToolMessage(<<ToolOk, ToolErr>>) }

UsageA == [completion_tokens |-> 1, prompt_tokens |-> 2]

\* what a role invocation may report as (cost, usage)
Bills == { [cost |-> None, usage |-> None], [cost |-> Some(1), usage |-> Some(UsageA)] }

\* content / tool calls an Executor invocation may return
ExecutorShapes ==
    { [content |-> Some("Please restart your phone."), tool_calls |-> None],
      [content |-> None, tool_calls |-> Some(<<ToolCall("call_1", TRANSFER_TOOL_NAME)>>)],
      [content |-> None, tool_calls |-> None],
      [content |-> Some("Please restart your phone."),
       tool_calls |-> Some(<<ToolCall("call_1", TRANSFER_TOOL_NAME)>>)] }

ExecutorResponses ==
    { AssistantMessage(s.content, s.tool_calls, b.cost, b.usage, None) :
        s \in ExecutorShapes, b \in Bills }

(***************************************************************************)
(* Verdict parsing (mav_hard).  A response text is a sequence of lines, a  *)
(* line a sequence of words; the empty line is blank.                      *)
(***************************************************************************)
APPROVE == "APPROVE"
REJECT == "REJECT"
SUGGEST == "SUGGEST"

\* str.upper() on the words of the vocabulary; the other words of the
\* vocabulary are in upper case already
Upper(w) ==
    CASE w = "approve" -> "APPROVE"
      [] w = "Reject" -> "REJECT"
      [] w = "suggest:" -> "SUGGEST:"
      [] w = "unclear" -> "UNCLEAR"
      [] w = "Looks" -> "LOOKS"
      [] w = "fine." -> "FINE."
      [] w = "Identity" -> "IDENTITY"
      [] w = "not" -> "NOT"
      [] w = "verified." -> "VERIFIED."
      [] w = "Be" -> "BE"
      [] w = "more" -> "MORE"
      [] w = "specific." -> "SPECIFIC."
      [] w = "Ask" -> "ASK"
      [] w = "first." -> "FIRST."
      [] w = "No" -> "NO"
      [] w = "feedback" -> "FEEDBACK"
      [] w = "provided." -> "PROVIDED."
      [] w = "Verifier" -> "VERIFIER"
      [] w = "error:" -> "ERROR:"
      [] w = "boom" -> "BOOM"
      [] OTHER -> w

\* upper-cased word w starts with the keyword
WordStartsWith(w, kw) ==
    \/ w = kw
    \/ kw = "APPROVE" /\ w \in {"APPROVED"}
    \/ kw = "REJECT" /\ w \in {"REJECTED"}
    \/ kw = "SUGGEST" /\ w \in {"SUGGEST:"}

\* upper-cased word w contains the keyword
WordContains(w, kw) ==
    \/ WordStartsWith(w, kw)
    \/ kw = "APPROVE" /\ w \in {"DISAPPROVE"}

RECURSIVE LStrip(_)
LStrip(t) == IF t = <<>> THEN <<>> ELSE IF Head(t) = <<>> THEN LStrip(Tail(t)) ELSE t

RECURSIVE RStrip(_)
RStrip(t) ==
    IF t = <<>> THEN <<>>
    ELSE IF t[Len(t)] = <<>> THEN RStrip(SubSeq(t, 1, Len(t) - 1)) ELSE t

\* str.strip() on a text
Strip(t) == RStrip(LStrip(t))

VerifierVerdict(v, e) == [verdict |-> v, explanation |-> e]

\* a plausible slip: a suggestion does not block
is_approved_or_suggested(v) == v.verdict \in {APPROVE, SUGGEST}

\* a plausible slip: the label is compared in lower case
is_approved_lower(v) == v.verdict = "approve"

is_approved(v) == v.verdict = APPROVE

LineContains(line, kw) == \E i \in 1..Len(line) : WordContains(Upper(line[i]), kw)

\* a plausible slip: the keywords are searched in the order APPROVE, REJECT, SUGGEST
parse_approve_first(response_text) ==
    IF Strip(response_text) = <<>>
    THEN VerifierVerdict(APPROVE, <<<<"No", "feedback", "provided.">>>>)
    ELSE LET first_line == Head(Strip(response_text))
             explanation == Strip(Tail(Strip(response_text)))
             first_word == Upper(first_line[1])
         IN  IF WordStartsWith(first_word, APPROVE) THEN VerifierVerdict(APPROVE, explanation)
             ELSE IF WordStartsWith(first_word, REJECT) THEN VerifierVerdict(REJECT, explanation)
             ELSE IF WordStartsWith(first_word, SUGGEST) THEN VerifierVerdict(SUGGEST, explanation)
             ELSE IF LineContains(first_line, APPROVE) THEN VerifierVerdict(APPROVE, explanation)
             ELSE IF LineContains(first_line, REJECT) THEN VerifierVerdict(REJECT, explanation)
             ELSE IF LineContains(first_line, SUGGEST) THEN VerifierVerdict(SUGGEST, explanation)
             ELSE VerifierVerdict(APPROVE, Strip(response_text))

\* VerifierVerdict.parse (lines 163-188)
parse(response_text) ==
    IF Strip(response_text) = <<>>
    THEN VerifierVerdict(APPROVE, <<<<"No", "feedback", "provided.">>>>)
    ELSE LET first_line == Head(Strip(response_text))
             explanation == Strip(Tail(Strip(response_text)))
             first_word == Upper(first_line[1])
         IN  IF WordStartsWith(first_word, APPROVE) THEN VerifierVerdict(APPROVE, explanation)
             ELSE IF WordStartsWith(first_word, REJECT) THEN VerifierVerdict(REJECT, explanation)
             ELSE IF WordStartsWith(first_word, SUGGEST) THEN VerifierVerdict(SUGGEST, explanation)
             ELSE IF LineContains(first_line, REJECT) THEN VerifierVerdict(REJECT, explanation)
             ELSE IF LineContains(first_line, SUGGEST) THEN VerifierVerdict(SUGGEST, explanation)
             ELSE IF LineContains(first_line, APPROVE) THEN VerifierVerdict(APPROVE, explanation)
             ELSE VerifierVerdict(APPROVE, Strip(response_text))

\* response texts a Verifier invocation may return in a turn
VerifierTexts ==
    { <<<<"APPROVE">>, <<"Looks", "fine.">>>>,
      <<<<"Reject">>, <<"Identity", "not", "verified.">>>>,
      <<<<"SUGGEST">>, <<"Be", "more", "specific.">>>>,
      <<>> }

VerifierResponses ==
    { [content |-> t, cost |-> b.cost, usage |-> b.usage] : t \in VerifierTexts, b \in Bills }

(***************************************************************************)
(* Observation of a turn                                                   *)
(***************************************************************************)
NoAcct ==
    [trace |-> <<>>, approvals |-> 0, blocks |-> 0,
     executor_cost |-> 0, executor_prompt |-> 0, executor_completion |-> 0,
     aux_cost |-> 0, aux_prompt |-> 0, aux_completion |-> 0,
     proposal |-> None, router_content |-> None, planner_content |-> None,
     seeds |-> <<>>, verdict |-> None]

\* the seed option that `**self.llm_args` hands to generate
SeedArg == IF "seed" \in DOMAIN llm_args THEN Some(llm_args["seed"]) ELSE None

\* an Executor invocation returned r
SawExecutor(a, r) ==
    [a EXCEPT !.trace = Append(@, "executor"),
              !.seeds = Append(@, SeedArg),
              !.executor_cost = @ + CostOf(r.cost),
              !.executor_prompt = @ + TokensOf(r.usage, "prompt_tokens"),
              !.executor_completion = @ + TokensOf(r.usage, "completion_tokens"),
              !.proposal = Some(r)]

\* an auxiliary invocation (role: "planner", "router", "verifier") returned r
SawAux(a, role, r) ==
    [a EXCEPT !.trace = Append(@, role),
              !.seeds = Append(@, SeedArg),
              !.aux_cost = @ + CostOf(r.cost),
              !.aux_prompt = @ + TokensOf(r.usage, "prompt_tokens"),
              !.aux_completion = @ + TokensOf(r.usage, "completion_tokens")]

\* a role invocation raised
SawFailure(a, role) ==
    [a EXCEPT !.trace = Append(@, role \o "_failed"), !.seeds = Append(@, SeedArg)]

\* the Router invocation returned a response whose content is c
SawRouterContent(a, c) == [a EXCEPT !.router_content = Some(c)]

\* the Planner invocation returned a response whose content is c
SawPlannerContent(a, c) == [a EXCEPT !.planner_content = Some(c)]

\* a Verifier invocation ended with verdict v
SawVerdict(a, v) ==
    IF v.verdict = "APPROVE"
    THEN [a EXCEPT !.approvals = @ + 1, !.verdict = Some(v)]
    ELSE [a EXCEPT !.blocks = @ + 1, !.verdict = Some(v)]

\* a turn starts with incoming message m
LogTurn(l, m) ==
    Append(l, [user |-> m.role = "user",
               error |-> IF "tool_messages" \in DOMAIN m
                         THEN \E i \in 1..Len(m.tool_messages) : m.tool_messages[i].error
                         ELSE "error" \in DOMAIN m /\ m.error,
               planner |-> FALSE, planner_ok |-> FALSE, executor |-> FALSE])

\* the turn in progress invoked the Planner (ok: it returned)
LogPlanner(l, ok) == [l EXCEPT ![Len(l)].planner = TRUE, ![Len(l)].planner_ok = ok]

\* the Executor of the turn in progress returned
LogExecutor(l) == [l EXCEPT ![Len(l)].executor = TRUE]

Count(seq, x) == Cardinality({i \in 1..Len(seq) : seq[i] = x})

ExecutorCalls == Count(acct.trace, "executor") + Count(acct.trace, "executor_failed")
VerifierCalls == Count(acct.trace, "verifier") + Count(acct.trace, "verifier_failed")

(***************************************************************************)
(* mav_hard: MAVHardAgent                                                  *)
(***************************************************************************)
\* a plausible slip: one retry too many
MAX_RETRIES_5 == 4 + 1

MAX_RETRIES == 4

max_attempts == MAX_RETRIES + 1

MAVHardInitState ==
    [executor_system_messages |-> <<SystemMessage("mav_hard executor prompt")>>,
     messages |-> <<>>]

_make_transfer_message ==
    AssistantMessage(None, Some(<<ToolCall("mav_hard_transfer_fallback", TRANSFER_TOOL_NAME)>>),
                     Some(0), Some(ZeroUsage), Some(<<>>))

_make_fallback_text_message ==
    AssistantMessage(Some("I apologize for the inconvenience. I'm having difficulty processing your request correctly. Let me transfer you to a human agent who can assist you further."),
                     None, Some(0), Some(ZeroUsage), Some(<<>>))

\* the message list of _call_executor: system messages, transcript, retry feedback
MAVHardExecutorInput(st, retry_prompt) ==
    st.executor_system_messages \o st.messages \o
        (IF IsNone(retry_prompt) THEN <<>> ELSE <<UserMessage(retry_prompt)>>)

\* EXECUTOR_RETRY_PROMPT.format(...)
EXECUTOR_RETRY_PROMPT(attempt, maxAttempts, verdict) ==
    [attempt |-> attempt, max_attempts |-> maxAttempts,
     verdict |-> verdict.verdict, feedback |-> verdict.explanation]

\* total_extra_usage += usage (both keys)
AddUsage(total, u) ==
    IF UsageTruthy(u)
    THEN [completion_tokens |-> total.completion_tokens + UsageGet(Val(u), "completion_tokens"),
          prompt_tokens |-> total.prompt_tokens + UsageGet(Val(u), "prompt_tokens")]
    ELSE total

\* a plausible slip: the cost of a blocked proposal is dropped
AddCostDropped(total, c) == total

\* total_extra_cost += proposed.cost (only when truthy)
AddCost(total, c) == IF CostTruthy(c) THEN total + Val(c) ELSE total

\* merge of the accumulated extra cost and usage into the final message
MergeCost(cost, extra) == IF ~IsNone(cost) THEN Some(Val(cost) + extra) ELSE Some(extra)

MergeUsage(usage, extra) ==
    IF ~IsNone(usage)
    THEN Some([completion_tokens |-> UsageGet(Val(usage), "completion_tokens") + extra.completion_tokens,
               prompt_tokens |-> UsageGet(Val(usage), "prompt_tokens") + extra.prompt_tokens])
    ELSE IF extra.completion_tokens > 0 \/ extra.prompt_tokens > 0
         THEN Some(extra)
         ELSE None

\* a plausible slip: the unapproved proposal is let through
FinalMessageNoEscalation(proposed, verdict, tool_names) == proposed

\* step 4: the message that goes on after the loop (lines 503, 515-520)
FinalMessage(proposed, verdict, tool_names) ==
    IF is_approved(verdict) THEN proposed
    ELSE IF TRANSFER_TOOL_NAME \in tool_names
         THEN _make_transfer_message
         ELSE _make_fallback_text_message

\* steps 4 and 5 of generate_next_message: escalation, metadata, merge
MAVHardFinalize(proposed, verdict, attempt, extra_cost, extra_usage) ==
    LET cost1 == IF ~is_approved(verdict) THEN AddCost(extra_cost, proposed.cost) ELSE extra_cost
        usage1 == IF ~is_approved(verdict) THEN AddUsage(extra_usage, proposed.usage) ELSE extra_usage
        final == FinalMessage(proposed, verdict, {tools[i] : i \in 1..Len(tools)})
        md0 == IF IsNone(final.metadata) THEN <<>> ELSE Val(final.metadata)
        md == Put(Put(Put(Put(Put(Put(md0,
                  "verifier_verdict", verdict.verdict),
                  "verifier_explanation", verdict.explanation),
                  "verifier_attempts", attempt),
                  "verifier_cost", cost1),
                  "verifier_usage", usage1),
                  "generated_by", "mav_hard")
    IN  [final EXCEPT !.metadata = Some(md),
                      !.cost = MergeCost(final.cost, cost1),
                      !.usage = MergeUsage(final.usage, usage1)]

\* lines 440-451: append the incoming message, reset the accumulators, call the Executor
MAVHard_Receive(m) ==
    /\ driver = "mav_hard"
    /\ pc \in {"idle", "raised"}
    /\ turn' = turn + 1
    /\ message' = m
    /\ state' = [state EXCEPT !.messages = AddIncoming(@, m)]
    /\ local' = [total_extra_cost |-> 0, total_extra_usage |-> ZeroUsage,
                 attempt |-> 0, retry_prompt |-> None,
                 proposed |-> None, verdict |-> None]
    /\ acct' = NoAcct
    /\ log' = LogTurn(log, m)
    /\ returned' = None
    /\ pc' = "executor"
    /\ UNCHANGED <<caller, llm, llm_args, driver, tools>>

\* a plausible slip: only a proposal that calls tools is verified, another one
\* is asked for again
MAVHardAfterProposalToolsOnly(r) ==
    IF IsNone(r.tool_calls) THEN "executor" ELSE "verifier"

\* line 455 (and 457 of the loop): every proposal goes to _call_verifier
MAVHardAfterProposal(r) == "verifier"

\* the local variables after _call_executor has returned r: lines 451-452
\* (attempt = 1) and 499-500 (attempt += 1)
MAVHardAfterExecutor(loc, r) == [loc EXCEPT !.proposed = Some(r), !.attempt = @ + 1]

\* _call_executor returns (line 451 with attempt = 1, or line 499 with attempt += 1)
MAVHard_ExecutorReturns(r) ==
    /\ driver = "mav_hard"
    /\ pc = "executor"
    /\ local' = MAVHardAfterExecutor(local, r)
    /\ acct' = SawExecutor(acct, r)
    /\ log' = LogExecutor(log)
    /\ pc' = MAVHardAfterProposal(r)
    /\ UNCHANGED <<caller, llm, llm_args, driver, tools, state, message, returned, turn>>

\* generate raises inside _call_executor: nothing catches it
MAVHard_ExecutorFails ==
    /\ driver = "mav_hard"
    /\ pc = "executor"
    /\ acct' = SawFailure(acct, "executor")
    /\ pc' = "raised"
    /\ UNCHANGED <<caller, llm, llm_args, driver, tools, state, message, local, returned, turn, log>>

\* a plausible slip: a failed verification blocks
FailClosedVerdict(e) == VerifierVerdict(REJECT, << <<"Verifier", "error:">> \o e >>)

\* the verdict _call_verifier returns when generate raises (lines 349-355)
VerifierErrorVerdict(e) == VerifierVerdict(APPROVE, << <<"Verifier", "error:">> \o e >>)

\* the texts of the exceptions generate may raise, as words: str(e)
ErrorTexts == { <<"boom">>, <<>> }

\* a plausible slip: a blocked proposal is committed to the transcript before the retry
MAVHardRetryStateStored(st, proposed) ==
    [st EXCEPT !.messages = Append(@, Stored(proposed))]

\* lines 470-500: a blocked proposal only feeds the accumulators and the retry
\* prompt, the state is left as it is
MAVHardRetryState(st, proposed) == st

\* the loop body after _call_verifier has produced (verdict, v_cost, v_usage),
\* from the local variables loc and the state st: the new local variables and
\* state, the message returned (if the turn ends) and where the turn goes on
MAVHardLoopBody(loc, st, verdict, v_cost, v_usage) ==
    LET proposed == Val(loc.proposed)
        cost0 == loc.total_extra_cost + v_cost
        usage0 == AddUsage(loc.total_extra_usage, v_usage)
    IN  IF is_approved(verdict) \/ loc.attempt >= max_attempts
        THEN LET final == MAVHardFinalize(proposed, verdict, loc.attempt, cost0, usage0)
             IN  [local |-> [loc EXCEPT !.verdict = Some(verdict),
                                        !.total_extra_cost = final.metadata[1]["verifier_cost"],
                                        !.total_extra_usage = final.metadata[1]["verifier_usage"],
                                        !.proposed = Some(final)],
                  state |-> [st EXCEPT !.messages = Append(@, Stored(final))],
                  returned |-> Some(final),
                  pc |-> "idle"]
        ELSE [local |-> [loc EXCEPT !.verdict = Some(verdict),
                                    !.total_extra_cost = AddCost(cost0, proposed.cost),
                                    !.total_extra_usage = AddUsage(usage0, proposed.usage),
                                    !.retry_prompt =
                                        Some(EXECUTOR_RETRY_PROMPT(loc.attempt, max_attempts, verdict))],
              state |-> MAVHardRetryState(st, proposed),
              returned |-> None,
              pc |-> "executor"]

\* the step of the turn that follows a Verifier invocation
MAVHardAfterVerdict(verdict, v_cost, v_usage) ==
    LET next == MAVHardLoopBody(local, state, verdict, v_cost, v_usage)
    IN  /\ local' = next.local
        /\ state' = next.state
        /\ returned' = next.returned
        /\ pc' = next.pc

\* _call_verifier returns a response (lines 337-347), then lines 457-553
MAVHard_VerifierReturns(v) ==
    /\ driver = "mav_hard"
    /\ pc = "verifier"
    /\ acct' = SawVerdict(SawAux(acct, "verifier", v), parse(v.content))
    /\ MAVHardAfterVerdict(parse(v.content), CostOf(v.cost), v.usage)
    /\ UNCHANGED <<caller, llm, llm_args, driver, tools, message, turn, log>>

\* generate raises inside _call_verifier (lines 349-355): APPROVE, cost 0.0, usage None
MAVHard_VerifierFails(e) ==
    /\ driver = "mav_hard"
    /\ pc = "verifier"
    /\ acct' = SawFailure(acct, "verifier")
    /\ MAVHardAfterVerdict(VerifierErrorVerdict(e), 0, None)
    /\ UNCHANGED <<caller, llm, llm_args, driver, tools, message, turn, log>>

NextHard ==
    \/ turn < MaxTurnsHard /\ \E m \in HardIncomingMessages : MAVHard_Receive(m)
    \/ \E r \in ExecutorResponses : MAVHard_ExecutorReturns(r)
    \/ MAVHard_ExecutorFails
    \/ \E v \in VerifierResponses : MAVHard_VerifierReturns(v)
    \/ \E e \in ErrorTexts : MAVHard_VerifierFails(e)

\* tool inventories a driver may be constructed with
ToolInventories == { <<"get_details", TRANSFER_TOOL_NAME>>, <<"get_details">> }

\* the model identifier and the options a driver is constructed with
InitAgent ==
    /\ llm = Some("gpt-4.1")
    /\ llm_args = <<>>

\* no call of generate_next_message has been made
InitCalls ==
    /\ tools \in ToolInventories
    /\ pc = "idle"
    /\ message = None
    /\ local = <<>>
    /\ returned = None
    /\ turn = 0
    /\ acct = NoAcct
    /\ log = <<>>

InitConversation ==
    /\ caller = None
    /\ InitCalls

InitCommon == InitAgent /\ InitConversation

InitHard ==
    /\ driver = "mav_hard"
    /\ state = MAVHardInitState
    /\ InitCommon

SpecHard == InitHard /\ [][NextHard]_vars

(***************************************************************************)
(* Properties of the hard-verification turn                                *)
(***************************************************************************)
HardTurnDone == driver = "mav_hard" /\ pc = "idle" /\ ~IsNone(returned)

\* C1: in one hard-verification turn the Executor is invoked at most 5 times
\* (1 proposal and at most 4 retries), whatever the verdicts are.
C1_ExecutorAtMostFive == driver = "mav_hard" => ExecutorCalls <= 5

\* a turn in which the Executor was invoked 5 times and every verdict blocked
C1_Witness == HardTurnDone /\ ExecutorCalls = 5 /\ acct.blocks = 5

\* the content and tool calls of the synthetic escalation for the driver's tool list
EscalationFor(tool_seq) ==
    IF \E i \in 1..Len(tool_seq) : tool_seq[i] = "transfer_to_human_agents"
    THEN [role |-> "assistant", content |-> None,
          tool_calls |-> Some(<<[id |-> "mav_hard_transfer_fallback",
                                 name |-> "transfer_to_human_agents",
                                 requestor |-> "assistant"]>>)]
    ELSE [role |-> "assistant",
          content |-> Some("I apologize for the inconvenience. I'm having difficulty processing your request correctly. Let me transfer you to a human agent who can assist you further."),
          tool_calls |-> None]

\* C2: when all 5 proposals of a turn were blocked, the message returned and
\* appended to the transcript is the synthetic escalation (the transfer tool call
\* if the tool is in the tool list, else the apology text), never a proposal.
C2_ExhaustedEscalates ==
    (HardTurnDone /\ acct.blocks = 5) =>
        /\ Stored(Val(returned)) = EscalationFor(tools)
        /\ state.messages[Len(state.messages)] = EscalationFor(tools)
        /\ \A r \in ExecutorResponses : Stored(r) # Stored(Val(returned))

\* an exhausted turn whose last proposal was itself a call of the transfer tool
C2_Witness ==
    /\ HardTurnDone /\ acct.blocks = 5
    /\ ~IsNone(Val(acct.proposal).tool_calls)
    /\ returned[1].metadata[1]["verifier_attempts"] = 5

\* C3: a failed Verifier invocation counts as Approve: the turn has ended without
\* raising and without a further invocation, returning the proposal under review.
C3_VerifierFailOpen ==
    (driver = "mav_hard" /\ Count(acct.trace, "verifier_failed") > 0) =>
        /\ pc = "idle"
        /\ acct.trace[Len(acct.trace)] = "verifier_failed"
        /\ Count(acct.trace, "verifier_failed") = 1
        /\ ~IsNone(returned)
        /\ Stored(Val(returned)) = Stored(Val(acct.proposal))
        /\ returned[1].metadata[1]["verifier_verdict"] = "APPROVE"

\* the Verifier failed on the third attempt, after two blocked proposals
C3_Witness ==
    /\ HardTurnDone
    /\ acct.trace = <<"executor", "verifier", "executor", "verifier", "executor", "verifier_failed">>

\* C7: the cost and the token counts of the message a hard-verification turn
\* returns are the sums over every Executor and Verifier invocation of the turn.
C7_HardCostConserved ==
    HardTurnDone =>
        /\ CostOf(returned[1].cost) = acct.executor_cost + acct.aux_cost
        /\ TokensOf(returned[1].usage, "prompt_tokens") = acct.executor_prompt + acct.aux_prompt
        /\ TokensOf(returned[1].usage, "completion_tokens")
              = acct.executor_completion + acct.aux_completion

\* an approval on the third attempt after two blocked proposals that reported a cost
C7_Witness ==
    /\ HardTurnDone
    /\ acct.approvals = 1 /\ acct.blocks = 2
    /\ acct.executor_cost = 3 /\ acct.aux_cost >= 2

(***************************************************************************)
(* Plan drivers: inputs shared by map_static and map_adaptive              *)
(***************************************************************************)
\* calls of generate_next_message in a conversation whose costs are followed
MaxTurnsPlan == 2

\* calls of generate_next_message in a static-plan conversation
MaxTurnsStatic == 4

\* calls of generate_next_message in an adaptive-plan conversation
MaxTurnsAdaptive == 5

UsageB == [completion_tokens |-> 3, prompt_tokens |-> 5]

PlanA == "1. Check the line status. 2. Ask the user to restart."
PlanB == "1. Reset the APN settings."

\* what a Planner invocation may return: plan text, cost, usage
PlannerResponses ==
    { [content |-> c, cost |-> k, usage |-> u] :
        c \in {Some(PlanA), None}, k \in {None, Some(0), Some(2)}, u \in {None, Some(UsageB)} }

\* Planner and Executor responses of the long conversations
FlowPlannerResponses ==
    { [content |-> c, cost |-> Some(2), usage |-> Some(UsageB)] : c \in {Some(PlanA), Some(PlanB), None} }

FlowExecutorResponses ==
    { AssistantMessage(Some("Please restart your phone."), None, Some(1), Some(UsageA), None) }

\* Executor responses of the conversations whose costs are followed
CostExecutorResponses ==
    { AssistantMessage(s.content, s.tool_calls, k, u, None) :
        s \in ExecutorShapes, k \in {None, Some(1)}, u \in {None, Some(UsageA)} }

\* `response.content or ""`
OrEmpty(c) == IF TextTruthy(c) THEN Val(c) ELSE ""

\* _build_executor_system_prompt(plan), plan an optional text
_build_executor_system_prompt(plan) ==
    IF TextTruthy(plan)
    THEN [template |-> "EXECUTOR_SYSTEM_PROMPT", domain_policy |-> "policy", plan |-> Val(plan)]
    ELSE [template |-> "EXECUTOR_SYSTEM_PROMPT_NO_PLAN", domain_policy |-> "policy"]

\* a plausible slip: the planner cost is not added to the message
MergePlannerNoCost(proposed, total_cost, total_usage) ==
    IF total_cost > 0
    THEN [proposed EXCEPT !.usage = MergeUsage(proposed.usage, total_usage)]
    ELSE proposed

\* "Merge planner cost" (map_static 328-347, map_adaptive 478-497)
MergePlanner(proposed, total_cost, total_usage) ==
    IF total_cost > 0
    THEN [proposed EXCEPT !.cost = MergeCost(proposed.cost, total_cost),
                          !.usage = MergeUsage(proposed.usage, total_usage)]
    ELSE proposed

\* metadata["planner_cost"], metadata["planner_usage"], set when the cost is positive
PutPlannerCost(md, total_cost, total_usage) ==
    IF total_cost > 0
    THEN Put(Put(md, "planner_cost", total_cost), "planner_usage", total_usage)
    ELSE md

MetadataOrEmpty(m) == IF IsNone(m.metadata) THEN <<>> ELSE Val(m.metadata)

(***************************************************************************)
(* map_static: MAPStaticAgent                                              *)
(***************************************************************************)
MAPStaticInitState ==
    [executor_system_messages |-> <<SystemMessage(_build_executor_system_prompt(None))>>,
     messages |-> <<>>,
     plan |-> None,
     plan_generated |-> FALSE]

\* a plausible slip: every User message plans again
NeedsInitialPlanEveryUser(m, st) == m.role = "user"

\* `is_user_message and not state.plan_generated`
NeedsInitialPlan(m, st) == m.role = "user" /\ ~st.plan_generated

\* lines 284-295: append the incoming message, then the Planner or the Executor is called
MAPStatic_Receive(m) ==
    /\ driver = "map_static"
    /\ pc \in {"idle", "raised"}
    /\ turn' = turn + 1
    /\ message' = m
    /\ state' = [state EXCEPT !.messages = AddIncoming(@, m)]
    /\ local' = [total_planner_cost |-> 0, total_planner_usage |-> ZeroUsage]
    /\ acct' = NoAcct
    /\ log' = LogTurn(log, m)
    /\ returned' = None
    /\ pc' = IF NeedsInitialPlan(m, state) THEN "planner" ELSE "executor"
    /\ UNCHANGED <<caller, llm, llm_args, driver, tools>>

\* lines 298-314 once _call_planner has produced (plan, p_cost, p_usage)
MAPStaticAfterPlanner(plan, p_cost, p_usage) ==
    /\ local' = [local EXCEPT !.total_planner_cost = @ + p_cost,
                              !.total_planner_usage = AddUsage(@, p_usage)]
    /\ state' = [state EXCEPT !.plan = Some(plan),
                              !.plan_generated = TRUE,
                              !.executor_system_messages =
                                  <<SystemMessage(_build_executor_system_prompt(Some(plan)))>>]
    /\ pc' = "executor"

\* _call_planner: generate returned (lines 244-253)
MAPStatic_PlannerReturns(r) ==
    /\ driver = "map_static"
    /\ pc = "planner"
    /\ acct' = SawPlannerContent(SawAux(acct, "planner", r), r.content)
    /\ log' = LogPlanner(log, TRUE)
    /\ MAPStaticAfterPlanner(OrEmpty(r.content), CostOf(r.cost), r.usage)
    /\ UNCHANGED <<caller, llm, llm_args, driver, tools, message, returned, turn>>

\* _call_planner: generate raised (lines 255-257)
MAPStatic_PlannerFails ==
    /\ driver = "map_static"
    /\ pc = "planner"
    /\ acct' = SawFailure(acct, "planner")
    /\ log' = LogPlanner(log, FALSE)
    /\ MAPStaticAfterPlanner("", 0, None)
    /\ UNCHANGED <<caller, llm, llm_args, driver, tools, message, returned, turn>>

\* lines 319-347: metadata and planner cost on the Executor's message
MAPStaticFinalize(proposed, st, total_cost, total_usage) ==
    LET md == PutPlannerCost(
                  Put(Put(MetadataOrEmpty(proposed), "generated_by", "map_static"),
                      "has_plan", st.plan_generated),
                  total_cost, total_usage)
    IN  MergePlanner([proposed EXCEPT !.metadata = Some(md)], total_cost, total_usage)

\* _call_executor returned (line 317), then lines 319-350
MAPStatic_ExecutorReturns(r) ==
    /\ driver = "map_static"
    /\ pc = "executor"
    /\ acct' = SawExecutor(acct, r)
    /\ log' = LogExecutor(log)
    /\ LET final == MAPStaticFinalize(r, state, local.total_planner_cost, local.total_planner_usage)
       IN  /\ state' = [state EXCEPT !.messages = Append(@, Stored(final))]
           /\ returned' = Some(final)
    /\ pc' = "idle"
    /\ UNCHANGED <<caller, llm, llm_args, driver, tools, message, local, turn>>

InitStatic ==
    /\ driver = "map_static"
    /\ state = MAPStaticInitState
    /\ InitCommon

NextStatic ==
    \/ turn < MaxTurnsStatic /\ \E m \in IncomingMessages : MAPStatic_Receive(m)
    \/ \E r \in FlowPlannerResponses : MAPStatic_PlannerReturns(r)
    \/ MAPStatic_PlannerFails
    \/ \E r \in FlowExecutorResponses : MAPStatic_ExecutorReturns(r)

SpecStatic == InitStatic /\ [][NextStatic]_vars

(***************************************************************************)
(* map_adaptive: MAPAdaptiveAgent                                          *)
(***************************************************************************)
\* a plausible slip: the interval is one step longer
REPLAN_INTERVAL_4 == 3 + 1

REPLAN_INTERVAL == 3

MAPAdaptiveInitState ==
    [executor_system_messages |-> <<SystemMessage(_build_executor_system_prompt(None))>>,
     messages |-> <<>>,
     plan |-> None,
     plan_generated |-> FALSE,
     steps_since_replan |-> 0,
     last_had_error |-> FALSE]

\* a plausible slip: all() instead of any() on a batch
AllToolMessagesFailed(m) ==
    IF IsMultiTool(m)
    THEN \A i \in 1..Len(m.tool_messages) : m.tool_messages[i].error
    ELSE IF m.role = "tool" THEN m.error ELSE FALSE

_check_incoming_for_errors(m) ==
    IF IsMultiTool(m)
    THEN \E i \in 1..Len(m.tool_messages) : m.tool_messages[i].error
    ELSE IF m.role = "tool" THEN m.error ELSE FALSE

\* needs_replan of lines 416-428
NeedsReplan(st, has_error) == has_error \/ st.steps_since_replan >= REPLAN_INTERVAL

\* a plausible slip: the step counter survives the new plan
_update_plan_keeps_counter(st, plan) ==
    [st EXCEPT !.plan = Some(plan),
               !.plan_generated = TRUE,
               !.executor_system_messages =
                   <<SystemMessage(_build_executor_system_prompt(Some(plan)))>>]

\* a plausible slip: the prompt is rebuilt only for a plan that has text
_update_plan_stale_prompt(st, plan) ==
    [st EXCEPT !.plan = Some(plan),
               !.plan_generated = TRUE,
               !.steps_since_replan = 0,
               !.executor_system_messages =
                   IF plan # ""
                   THEN <<SystemMessage(_build_executor_system_prompt(Some(plan)))>>
                   ELSE @]

\* _update_plan(state, plan)
_update_plan(st, plan) ==
    [st EXCEPT !.plan = Some(plan),
               !.plan_generated = TRUE,
               !.steps_since_replan = 0,
               !.executor_system_messages =
                   <<SystemMessage(_build_executor_system_prompt(Some(plan)))>>]

\* replan_reason of lines 418-421
ReplanReasonError ==
    "A tool error occurred. Please revise the plan to handle this error and continue resolving the customer's issue."

\* replan_reason of lines 424-428, an f-string over state.steps_since_replan
ReplanReasonInterval(n) ==
    "The Executor has completed " \o ToString(n) \o
    " steps since the last plan. Please review progress and revise the remaining steps if needed."

\* lines 384-442 up to the first role invocation of the turn
MAPAdaptive_Receive(m) ==
    /\ driver = "map_adaptive"
    /\ pc \in {"idle", "raised"}
    /\ turn' = turn + 1
    /\ message' = m
    /\ state' = [state EXCEPT !.messages = AddIncoming(@, m)]
    /\ LET has_error == _check_incoming_for_errors(m)
           initial == NeedsInitialPlan(m, state)
           needs_replan == ~initial /\ state.plan_generated /\ NeedsReplan(state, has_error)
       IN  /\ local' = [has_error |-> has_error, initial |-> initial, needs_replan |-> needs_replan,
                        replan_reason |-> IF ~needs_replan THEN ""
                                          ELSE IF has_error THEN ReplanReasonError
                                          ELSE ReplanReasonInterval(state.steps_since_replan),
                        total_planner_cost |-> 0, total_planner_usage |-> ZeroUsage]
           /\ pc' = IF initial \/ needs_replan THEN "planner" ELSE "executor"
    /\ acct' = NoAcct
    /\ log' = LogTurn(log, m)
    /\ returned' = None
    /\ UNCHANGED <<caller, llm, llm_args, driver, tools>>

\* a plausible slip: each replan trigger makes its own Planner call
MAPAdaptiveAfterPlannerPerTrigger(plan, p_cost, p_usage) ==
    /\ local' = [local EXCEPT !.total_planner_cost = @ + p_cost,
                              !.total_planner_usage = AddUsage(@, p_usage)]
    /\ state' = _update_plan(state, plan)
    /\ pc' = IF local.has_error /\ state.steps_since_replan >= REPLAN_INTERVAL
             THEN "planner" ELSE "executor"

\* lines 406-412 and 434-442 once the Planner call has produced (plan, p_cost, p_usage)
MAPAdaptiveAfterPlanner(plan, p_cost, p_usage) ==
    /\ local' = [local EXCEPT !.total_planner_cost = @ + p_cost,
                              !.total_planner_usage = AddUsage(@, p_usage)]
    /\ state' = _update_plan(state, plan)
    /\ pc' = "executor"

\* _call_planner_initial / _call_planner_replan: generate returned
MAPAdaptive_PlannerReturns(r) ==
    /\ driver = "map_adaptive"
    /\ pc = "planner"
    /\ acct' = SawPlannerContent(SawAux(acct, "planner", r), r.content)
    /\ log' = LogPlanner(log, TRUE)
    /\ MAPAdaptiveAfterPlanner(OrEmpty(r.content), CostOf(r.cost), r.usage)
    /\ UNCHANGED <<caller, llm, llm_args, driver, tools, message, returned, turn>>

\* a plausible slip: a failed replan gives the empty plan, as a failed initial plan does
ReplanFailurePlanEmpty(st) == ""

\* the plan _call_planner_replan returns when generate raised: `state.plan or ""`
ReplanFailurePlan(st) == OrEmpty(st.plan)

\* generate raised: "" for the initial plan (299-301), `state.plan or ""` for a replan (333-335)
MAPAdaptive_PlannerFails ==
    /\ driver = "map_adaptive"
    /\ pc = "planner"
    /\ acct' = SawFailure(acct, "planner")
    /\ log' = LogPlanner(log, FALSE)
    /\ MAPAdaptiveAfterPlanner(IF local.initial THEN "" ELSE ReplanFailurePlan(state), 0, None)
    /\ UNCHANGED <<caller, llm, llm_args, driver, tools, message, returned, turn>>

\* the safety net of lines 447-460
ClarificationAdaptive(proposed) ==
    AssistantMessage(
        Some("I apologize, could you please repeat your question or provide more details so I can assist you?"),
        None, proposed.cost, proposed.usage, Some(<<>>))

\* `not proposed.content and not (proposed.tool_calls and len(proposed.tool_calls) > 0)`
IsEmptyProposal(proposed) ==
    /\ ~TextTruthy(proposed.content)
    /\ ~(~IsNone(proposed.tool_calls) /\ Len(Val(proposed.tool_calls)) > 0)

\* lines 447-497: safety net, step counter, metadata, planner cost
MAPAdaptiveFinalize(raw, st, loc) ==
    LET proposed == IF IsEmptyProposal(raw) THEN ClarificationAdaptive(raw) ELSE raw
        md1 == Put(Put(Put(MetadataOrEmpty(proposed), "generated_by", "map_adaptive"),
                       "has_plan", st.plan_generated),
                   "steps_since_replan", st.steps_since_replan + 1)
        md2 == IF loc.needs_replan
               THEN Put(Put(md1, "replanned", TRUE), "replan_reason", loc.replan_reason)
               ELSE md1
        md == PutPlannerCost(md2, loc.total_planner_cost, loc.total_planner_usage)
    IN  MergePlanner([proposed EXCEPT !.metadata = Some(md)],
                     loc.total_planner_cost, loc.total_planner_usage)

\* _call_executor returned (line 445), then lines 447-500
MAPAdaptive_ExecutorReturns(r) ==
    /\ driver = "map_adaptive"
    /\ pc = "executor"
    /\ acct' = SawExecutor(acct, r)
    /\ log' = LogExecutor(log)
    /\ LET final == MAPAdaptiveFinalize(r, state, local)
       IN  /\ state' = [state EXCEPT !.messages = Append(@, Stored(final)),
                                     !.steps_since_replan = @ + 1]
           /\ returned' = Some(final)
    /\ pc' = "idle"
    /\ UNCHANGED <<caller, llm, llm_args, driver, tools, message, local, turn>>

InitAdaptive ==
    /\ driver = "map_adaptive"
    /\ state = MAPAdaptiveInitState
    /\ InitCommon

NextAdaptive ==
    \/ turn < MaxTurnsAdaptive /\ \E m \in IncomingMessages : MAPAdaptive_Receive(m)
    \/ \E r \in FlowPlannerResponses : MAPAdaptive_PlannerReturns(r)
    \/ MAPAdaptive_PlannerFails
    \/ \E r \in FlowExecutorResponses : MAPAdaptive_ExecutorReturns(r)

SpecAdaptive == InitAdaptive /\ [][NextAdaptive]_vars

\* both plan drivers, short conversations, every combination of reported cost and usage
InitPlan == InitStatic \/ InitAdaptive

NextPlan ==
    \/ turn < MaxTurnsPlan /\ \E m \in IncomingMessages : MAPStatic_Receive(m)
    \/ \E r \in PlannerResponses : MAPStatic_PlannerReturns(r)
    \/ MAPStatic_PlannerFails
    \/ \E r \in CostExecutorResponses : MAPStatic_ExecutorReturns(r)
    \/ turn < MaxTurnsPlan /\ \E m \in IncomingMessages : MAPAdaptive_Receive(m)
    \/ \E r \in PlannerResponses : MAPAdaptive_PlannerReturns(r)
    \/ MAPAdaptive_PlannerFails
    \/ \E r \in CostExecutorResponses : MAPAdaptive_ExecutorReturns(r)

SpecPlan == InitPlan /\ [][NextPlan]_vars

(***************************************************************************)
(* Properties of the plan drivers                                          *)
(***************************************************************************)
PlannerCalls(a) == Count(a.trace, "planner") + Count(a.trace, "planner_failed")

PlanTurnDone == driver \in {"map_static", "map_adaptive"} /\ pc = "idle" /\ ~IsNone(returned)

\* C4: in the static-plan driver, once plan_generated is true no step invokes the
\* Planner or lets a turn wait for it, and the plan, the flag and the executor
\* system message stay as they are, whatever message comes in.
C4_StaticPlanImmutable ==
    [][(driver = "map_static" /\ state.plan_generated) =>
          /\ pc' # "planner"
          /\ PlannerCalls(acct') <= PlannerCalls(acct)
          /\ state'.plan_generated
          /\ state'.plan = state.plan
          /\ state'.executor_system_messages = state.executor_system_messages]_vars

\* a second User message was answered without the Planner, after Tool turns
C4_Witness ==
    /\ driver = "map_static" /\ pc = "idle" /\ ~IsNone(returned)
    /\ Len(log) = 4 /\ log[1].user /\ log[1].planner_ok /\ ~log[2].user /\ log[4].user
    /\ acct.trace = <<"executor">>
    /\ state.plan = Some("1. Check the line status. 2. Ask the user to restart.")

\* the turn log[j] has no tool error in its incoming message and its Executor returned
QuietTurn(j) == j <= Len(log) /\ ~log[j].error /\ log[j].executor

\* turn j has invoked the Planner or is about to
Replans(j) == j <= Len(log) /\ (log[j].planner \/ (j = Len(log) /\ pc = "planner"))

\* C5: in the adaptive driver, a turn i that (re)planned followed by two turns
\* without tool error: those two turns do not invoke the Planner, and the turn
\* after them (the 4th) invokes the Planner before its Executor runs.
C5_ReplanAfterThreeSteps ==
    driver = "map_adaptive" =>
        \A i \in 1..Len(log) :
            (log[i].planner /\ log[i].executor) =>
                /\ (i + 1 <= Len(log) /\ ~log[i + 1].error) => ~Replans(i + 1)
                /\ (QuietTurn(i + 1) /\ i + 2 <= Len(log) /\ ~log[i + 2].error) => ~Replans(i + 2)
                /\ (QuietTurn(i + 1) /\ QuietTurn(i + 2) /\ i + 3 <= Len(log)) =>
                       /\ Replans(i + 3)
                       /\ (i + 3 = Len(log) /\ acct.trace # <<>>) =>
                              acct.trace[1] \in {"planner", "planner_failed"}

\* plan in turn 1, no Planner in turns 2 and 3, an interval replan in turn 4
C5_Witness ==
    /\ driver = "map_adaptive" /\ pc = "idle" /\ ~IsNone(returned)
    /\ Len(log) = 4 /\ log[1].planner_ok /\ ~log[2].planner /\ ~log[3].planner
    /\ ~log[4].error /\ log[4].planner_ok /\ log[4].executor
    /\ acct.trace = <<"planner", "executor">>
    /\ state.steps_since_replan = 1

\* C6: in the adaptive driver with a plan generated in an earlier turn, a turn
\* whose incoming Tool message or MultiTool batch carries an error flag invokes
\* the Planner first, whatever the step counter is.
C6_ToolErrorReplans ==
    (/\ driver = "map_adaptive"
     /\ Len(log) > 0
     /\ log[Len(log)].error
     /\ \E j \in 1..(Len(log) - 1) : log[j].planner) =>
        \/ pc = "planner" /\ acct.trace = <<>>
        \/ acct.trace # <<>> /\ acct.trace[1] \in {"planner", "planner_failed"}

\* a batch with one failed member replans in turn 2, the counter being 1
C6_Witness ==
    /\ driver = "map_adaptive" /\ pc = "idle" /\ ~IsNone(returned)
    /\ Len(log) = 2 /\ log[1].planner
    /\ "tool_messages" \in DOMAIN message
    /\ acct.trace = <<"planner", "executor">>
    /\ returned[1].metadata[1]["replanned"]

\* C9: in both plan drivers, when the Planner invocation of a turn succeeded, the
\* cost of the returned message is the Executor's cost plus the Planner's cost.
C9_PlannerCostMerged ==
    (PlanTurnDone /\ Count(acct.trace, "planner") > 0) =>
        CostOf(returned[1].cost) = acct.executor_cost + acct.aux_cost

\* an error-triggered replan that cost 2, merged into an Executor message without cost
C9_Witness ==
    /\ PlanTurnDone /\ driver = "map_adaptive"
    /\ Len(log) = 2 /\ log[2].error /\ log[2].planner_ok
    /\ acct.aux_cost = 2 /\ IsNone(Val(acct.proposal).cost)
    /\ returned[1].cost = Some(2)

\* C10: in both plan drivers, when the Planner invocation of a turn succeeded,
\* whatever cost it reported, the usage of the returned message holds the sums of
\* the Executor's and the Planner's prompt and completion tokens.
C10_PlannerUsageMerged ==
    (PlanTurnDone /\ Count(acct.trace, "planner") > 0) =>
        /\ TokensOf(returned[1].usage, "prompt_tokens") = acct.executor_prompt + acct.aux_prompt
        /\ TokensOf(returned[1].usage, "completion_tokens")
              = acct.executor_completion + acct.aux_completion

(***************************************************************************)
(* Router drivers: mas_2 (MAS2Agent), mas_3 (PaperMultiAgent, re-routing)  *)
(* and paper_multi_agent (PaperMultiAgent, route once).  A Router response *)
(* text is a sequence of words.                                            *)
(***************************************************************************)
\* calls of generate_next_message in a router conversation
MaxTurnsRouter == 2

INFRASTRUCTURE_ISSUE == "infrastructure_issue"
APPLICATION_ISSUE == "application_issue"
SERVICE_ISSUE == "service_issue"
MOBILE_DATA_ISSUE == "mobile_data_issue"
MMS_ISSUE == "mms_issue"

\* str.lower() on the words of the vocabulary
Lower(w) ==
    CASE w = "Service_Issue" -> "service_issue"
      [] w = "MMS" -> "mms"
      [] w = "Application_Issue" -> "application_issue"
      [] w = "XYZ" -> "xyz"
      [] OTHER -> w

\* the keywords of the routers that occur inside a lower-case word
KeysIn(w) ==
    CASE w = "infrastructure_issue" -> {"infrastructure_issue", "infrastructure"}
      [] w = "application_issue" -> {"application_issue", "application"}
      [] w = "service_issue" -> {"service_issue", "service"}
      [] w = "mobile_data_issue" -> {"mobile_data_issue", "mobile_data", "data_issue", "data"}
      [] w = "mms_issue" -> {"mms_issue", "mms"}
      [] w = "mms" -> {"mms"}
      [] w = "data" -> {"data"}
      [] w = "service" -> {"service"}
      [] OTHER -> {}

\* `response.content.strip().lower() if response.content else ""`
RouterText(c) == IF IsNone(c) THEN <<>> ELSE [i \in 1..Len(Val(c)) |-> Lower(Val(c)[i])]

\* `key in response_text`
TextHas(text, key) == \E i \in 1..Len(text) : key \in KeysIn(text[i])

\* a plausible slip: the three-category names are tried before the partial matches
MAS2ClassifyLegacyFirst(text) ==
    IF text = <<"infrastructure_issue">> THEN INFRASTRUCTURE_ISSUE
    ELSE IF text = <<"application_issue">> THEN APPLICATION_ISSUE
    ELSE IF TextHas(text, "service_issue") \/ TextHas(text, "service") THEN INFRASTRUCTURE_ISSUE
    ELSE IF TextHas(text, "mobile_data") \/ TextHas(text, "mms") \/ TextHas(text, "data")
         THEN APPLICATION_ISSUE
    ELSE IF TextHas(text, "infrastructure") THEN INFRASTRUCTURE_ISSUE
    ELSE IF TextHas(text, "application") THEN APPLICATION_ISSUE
    ELSE INFRASTRUCTURE_ISSUE

\* mas_2 _route_to_agent, lines 229-257
MAS2Classify(text) ==
    IF text = <<"infrastructure_issue">> THEN INFRASTRUCTURE_ISSUE
    ELSE IF text = <<"application_issue">> THEN APPLICATION_ISSUE
    ELSE IF TextHas(text, "infrastructure") THEN INFRASTRUCTURE_ISSUE
    ELSE IF TextHas(text, "application") THEN APPLICATION_ISSUE
    ELSE IF TextHas(text, "service_issue") \/ TextHas(text, "service") THEN INFRASTRUCTURE_ISSUE
    ELSE IF TextHas(text, "mobile_data") \/ TextHas(text, "mms") \/ TextHas(text, "data")
         THEN APPLICATION_ISSUE
    ELSE INFRASTRUCTURE_ISSUE

\* mas_3 _route_to_agent, lines 174-196
MAS3Classify(text) ==
    IF text = <<"mms_issue">> THEN MMS_ISSUE
    ELSE IF text = <<"mobile_data_issue">> THEN MOBILE_DATA_ISSUE
    ELSE IF text = <<"service_issue">> THEN SERVICE_ISSUE
    ELSE IF TextHas(text, "mms") THEN MMS_ISSUE
    ELSE IF TextHas(text, "mobile_data") \/ TextHas(text, "data_issue") THEN MOBILE_DATA_ISSUE
    ELSE IF TextHas(text, "service") THEN SERVICE_ISSUE
    ELSE SERVICE_ISSUE

\* paper_multi_agent _route_to_agent, lines 148-159
PaperClassify(text) ==
    IF TextHas(text, "mms_issue") \/ TextHas(text, "mms") THEN MMS_ISSUE
    ELSE IF TextHas(text, "mobile_data_issue") \/ TextHas(text, "mobile_data") \/ TextHas(text, "data")
         THEN MOBILE_DATA_ISSUE
    ELSE IF TextHas(text, "service_issue") \/ TextHas(text, "service") THEN SERVICE_ISSUE
    ELSE SERVICE_ISSUE

Classify(d, text) ==
    CASE d = "mas_2" -> MAS2Classify(text)
      [] d = "mas_3" -> MAS3Classify(text)
      [] d = "paper_multi_agent" -> PaperClassify(text)

\* the members of the driver's IssueType enum
IssueTypes(d) ==
    CASE d = "mas_2" -> {INFRASTRUCTURE_ISSUE, APPLICATION_ISSUE}
      [] d = "mas_3" -> {SERVICE_ISSUE, MOBILE_DATA_ISSUE, MMS_ISSUE}
      [] d = "paper_multi_agent" -> {SERVICE_ISSUE, MOBILE_DATA_ISSUE, MMS_ISSUE, "unknown"}

\* a plausible slip: the three-category fallback copied into the two-tier driver
RouterFallbackService(d) == SERVICE_ISSUE

\* the category of the `except` branch of _route_to_agent
RouterFallback(d) == IF d = "mas_2" THEN INFRASTRUCTURE_ISSUE ELSE SERVICE_ISSUE

\* self._agent_prompts[issue_type], built once in __init__
AgentPrompt(d, issue_type) ==
    CASE d = "mas_2" ->
           [agent_identity |-> issue_type, base_policy |-> "base_policy",
            specialized_policy |-> IF issue_type = INFRASTRUCTURE_ISSUE
                                   THEN <<"SERVICE_ISSUE_POLICY">>
                                   ELSE <<"MOBILE_DATA_ISSUE_POLICY", "MMS_ISSUE_POLICY">>]
      [] d = "mas_3" ->
           [agent_identity |-> issue_type, base_policy |-> "base_policy",
            specialized_policy |-> CASE issue_type = SERVICE_ISSUE -> <<"SERVICE_ISSUE_POLICY">>
                                     [] issue_type = MOBILE_DATA_ISSUE -> <<"MOBILE_DATA_ISSUE_POLICY">>
                                     [] issue_type = MMS_ISSUE -> <<"MMS_ISSUE_POLICY">>]
      [] d = "paper_multi_agent" ->
           [base_policy |-> "BASE_POLICY", device |-> "USER_DEVICE_CAPABILITIES",
            specialized_policy |-> CASE issue_type = SERVICE_ISSUE -> <<"SERVICE_ISSUE_POLICY">>
                                     [] issue_type = MOBILE_DATA_ISSUE -> <<"MOBILE_DATA_ISSUE_POLICY">>
                                     [] issue_type = MMS_ISSUE -> <<"MMS_ISSUE_POLICY">>]

RouterInitState ==
    [system_messages |-> <<>>, messages |-> <<>>, current_agent |-> None, is_routed |-> FALSE]

\* a plausible slip: every driver routes once
NeedsRoutingOnce(d, m, st) == ~st.is_routed

\* the routing condition of the turn: every User message (mas_2, mas_3), or not yet routed
NeedsRouting(d, m, st) ==
    IF d = "paper_multi_agent" THEN ~st.is_routed ELSE m.role = "user"

\* texts a Router invocation may return
RouterTexts ==
    { Some(<<"mobile_data_issue">>), Some(<<"Service_Issue">>), Some(<<"application_issue">>),
      Some(<<"XYZ", "nonsense">>), Some(<<>>), None }

RouterResponses == { [content |-> t, cost |-> b.cost, usage |-> b.usage] : t \in RouterTexts, b \in Bills }

\* append the incoming message, then the Router or the Executor is called
Router_Receive(m) ==
    /\ driver \in {"mas_2", "mas_3", "paper_multi_agent"}
    /\ pc \in {"idle", "raised"}
    /\ turn' = turn + 1
    /\ message' = m
    /\ state' = [state EXCEPT !.messages = AddIncoming(@, m)]
    /\ local' = <<>>
    /\ acct' = NoAcct
    /\ log' = LogTurn(log, m)
    /\ returned' = None
    /\ pc' = IF NeedsRouting(driver, m, state) THEN "router" ELSE "executor"
    /\ UNCHANGED <<caller, llm, llm_args, driver, tools>>

\* the state after _route_to_agent has returned issue_type
Routed(st, d, issue_type) ==
    [st EXCEPT !.current_agent = Some(issue_type),
               !.is_routed = TRUE,
               !.system_messages = <<SystemMessage(AgentPrompt(d, issue_type))>>]

\* _route_to_agent: generate returned; the cost and usage of the response are not kept
Router_RouterReturns(r) ==
    /\ driver \in {"mas_2", "mas_3", "paper_multi_agent"}
    /\ pc = "router"
    /\ acct' = SawRouterContent(SawAux(acct, "router", r), r.content)
    /\ state' = Routed(state, driver, Classify(driver, RouterText(r.content)))
    /\ pc' = "executor"
    /\ UNCHANGED <<caller, llm, llm_args, driver, tools, message, local, returned, turn, log>>

\* _route_to_agent: generate raised
Router_RouterFails ==
    /\ driver \in {"mas_2", "mas_3", "paper_multi_agent"}
    /\ pc = "router"
    /\ acct' = SawFailure(acct, "router")
    /\ state' = Routed(state, driver, RouterFallback(driver))
    /\ pc' = "executor"
    /\ UNCHANGED <<caller, llm, llm_args, driver, tools, message, local, returned, turn, log>>

\* the safety net of mas_2, lines 353-364
ClarificationMAS2(proposed) ==
    AssistantMessage(
        Some("I apologize, could you please repeat your question or provide more details?"),
        None, proposed.cost, proposed.usage, Some(<<>>))

\* the message the turn returns, from the Executor's response
RouterFinalize(d, raw, st) ==
    CASE d = "mas_2" ->
           LET proposed == IF IsEmptyProposal(raw) THEN ClarificationMAS2(raw) ELSE raw
           IN  [proposed EXCEPT !.metadata =
                   Some(Put(Put(MetadataOrEmpty(proposed), "generated_by_agent",
                                IF ~IsNone(st.current_agent) THEN Val(st.current_agent) ELSE "unrouted"),
                            "generated_by", "mas_2"))]
      [] d = "mas_3" ->
           [raw EXCEPT !.metadata =
               Some(Put(MetadataOrEmpty(raw), "generated_by_agent", Val(st.current_agent)))]
      [] d = "paper_multi_agent" -> raw

\* mas_3 line 330: `state.current_agent.value` raises when no User message has come yet
RaisesAfterExecutor(d, st) == d = "mas_3" /\ IsNone(st.current_agent)

\* generate returned for the Executor, then the rest of generate_next_message
Router_ExecutorReturns(r) ==
    /\ driver \in {"mas_2", "mas_3", "paper_multi_agent"}
    /\ pc = "executor"
    /\ acct' = SawExecutor(acct, r)
    /\ log' = LogExecutor(log)
    /\ IF RaisesAfterExecutor(driver, state)
       THEN /\ pc' = "raised"
            /\ UNCHANGED <<state, returned>>
       ELSE /\ LET final == RouterFinalize(driver, r, state)
               IN  /\ state' = [state EXCEPT !.messages = Append(@, Stored(final))]
                   /\ returned' = Some(final)
            /\ pc' = "idle"
    /\ UNCHANGED <<caller, llm, llm_args, driver, tools, message, local, turn>>

InitRouter ==
    /\ driver \in {"mas_2", "mas_3", "paper_multi_agent"}
    /\ state = RouterInitState
    /\ InitCommon

NextRouter ==
    \/ turn < MaxTurnsRouter /\ \E m \in IncomingMessages : Router_Receive(m)
    \/ \E r \in RouterResponses : Router_RouterReturns(r)
    \/ Router_RouterFails
    \/ \E r \in ExecutorResponses : Router_ExecutorReturns(r)

SpecRouter == InitRouter /\ [][NextRouter]_vars

(***************************************************************************)
(* Properties of the router drivers                                        *)
(***************************************************************************)
RouterTurnDone ==
    driver \in {"mas_2", "mas_3", "paper_multi_agent"} /\ pc = "idle" /\ ~IsNone(returned)

\* C8: in the router drivers, in a turn in which the Router was invoked, the cost
\* of the returned message is the Executor's cost plus the Router's cost.
C8_RouterCostMerged ==
    (RouterTurnDone /\ Count(acct.trace, "router") > 0) =>
        CostOf(returned[1].cost) = acct.executor_cost + acct.aux_cost

(***************************************************************************)
(* All drivers in one specification.  The Executor is called outside any   *)
(* try block in every driver, so a failed Executor invocation leaves       *)
(* generate_next_message with the exception.                               *)
(***************************************************************************)
\* map_static _call_executor (line 317): generate raised, nothing catches it
MAPStatic_ExecutorFails ==
    /\ driver = "map_static"
    /\ pc = "executor"
    /\ acct' = SawFailure(acct, "executor")
    /\ pc' = "raised"
    /\ UNCHANGED <<caller, llm, llm_args, driver, tools, state, message, local, returned, turn, log>>

\* a plausible slip: the turn is undone when the Executor fails
MAPAdaptive_ExecutorFailsRollsBack ==
    /\ driver = "map_adaptive"
    /\ pc = "executor"
    /\ acct' = SawFailure(acct, "executor")
    /\ pc' = "raised"
    /\ state' = [state EXCEPT !.messages = SubSeq(@, 1, Len(@) - Len(IncomingOf(message)))]
    /\ UNCHANGED <<caller, llm, llm_args, driver, tools, message, local, returned, turn, log>>

\* map_adaptive _call_executor (line 445): generate raised, nothing catches it
MAPAdaptive_ExecutorFails ==
    /\ driver = "map_adaptive"
    /\ pc = "executor"
    /\ acct' = SawFailure(acct, "executor")
    /\ pc' = "raised"
    /\ UNCHANGED <<caller, llm, llm_args, driver, tools, state, message, local, returned, turn, log>>

\* the Executor's generate of a router driver raised, nothing catches it
Router_ExecutorFails ==
    /\ driver \in {"mas_2", "mas_3", "paper_multi_agent"}
    /\ pc = "executor"
    /\ acct' = SawFailure(acct, "executor")
    /\ pc' = "raised"
    /\ UNCHANGED <<caller, llm, llm_args, driver, tools, state, message, local, returned, turn, log>>

InitDrivers == InitHard \/ InitPlan \/ InitRouter

NextDrivers ==
    \/ NextHard
    \/ NextPlan
    \/ NextRouter
    \/ MAPStatic_ExecutorFails
    \/ MAPAdaptive_ExecutorFails
    \/ Router_ExecutorFails

SpecDrivers == InitDrivers /\ [][NextDrivers]_vars

(***************************************************************************)
(* Properties of every driver                                              *)
(***************************************************************************)
\* a turn of any driver has returned a message
TurnDone == pc = "idle" /\ ~IsNone(returned)

HasContent(m) == ~IsNone(m.content) /\ Val(m.content) # ""

HasToolCalls(m) == ~IsNone(m.tool_calls) /\ Len(Val(m.tool_calls)) > 0

\* C11: the assistant message a turn of any driver returns has nonempty content
\* or nonempty tool calls, never both and never neither, whatever the Executor
\* produced.
C11_MutuallyExclusive ==
    TurnDone => (HasContent(Val(returned)) /\ ~HasToolCalls(Val(returned)))
                \/ (~HasContent(Val(returned)) /\ HasToolCalls(Val(returned)))

\* the fixed clarification requests of the two safety nets
ClarificationTexts ==
    { "I apologize, could you please repeat your question or provide more details so I can assist you?",
      "I apologize, could you please repeat your question or provide more details?" }

\* the turn has ended on an Executor proposal that had neither content nor tool
\* calls (in mav_hard: that proposal was let through by the Verifier)
EmptyProposalTurn ==
    /\ TurnDone
    /\ ~IsNone(acct.proposal)
    /\ ~HasContent(Val(acct.proposal)) /\ ~HasToolCalls(Val(acct.proposal))
    /\ driver = "mav_hard" => acct.trace[Len(acct.trace)] = "verifier_failed" \/ acct.approvals = 1

\* C12: in every driver, when the Executor's proposal has neither content nor
\* tool calls, the turn returns the fixed clarification-request text with the
\* cost and usage of the empty proposal, and the transcript gets that text, never
\* the empty proposal.
C12_EmptyProposalReplaced ==
    EmptyProposalTurn =>
        /\ ~IsNone(returned[1].content) /\ Val(returned[1].content) \in ClarificationTexts
        /\ ~HasToolCalls(Val(returned))
        /\ state.messages[Len(state.messages)].content = returned[1].content
        /\ acct.trace = <<"executor">> =>
               /\ returned[1].cost = Val(acct.proposal).cost
               /\ returned[1].usage = Val(acct.proposal).usage

(***************************************************************************)
(* Properties of routing                                                   *)
(***************************************************************************)
\* the turn in progress or just finished began with a Router invocation
RoutedThisTurn ==
    /\ driver \in {"mas_2", "mas_3", "paper_multi_agent"}
    /\ acct.trace # <<>>
    /\ acct.trace[1] \in {"router", "router_failed"}

\* Router responses that name no category: null, empty, unrelated words
NoCategoryContents == { <<>>, <<<<>>>>, <<<<"XYZ", "nonsense">>>> }

\* C13: in every router driver, a Router invocation ends with the Executor call
\* next (nothing raised) and current_agent a member of the driver's enum; when
\* the invocation failed or its response was null, empty or matched no category
\* ("XYZ nonsense"), the category is the fallback: infrastructure_issue in the
\* two-tier driver, service_issue in the three-tier and route-once drivers.
C13_RouterFallback ==
    RoutedThisTurn =>
        /\ Len(acct.trace) = 1 => pc = "executor"
        /\ ~IsNone(state.current_agent)
        /\ Val(state.current_agent) \in IssueTypes(driver)
        /\ (\/ acct.trace[1] = "router_failed"
            \/ (~IsNone(acct.router_content) /\ Val(acct.router_content) \in NoCategoryContents)) =>
               Val(state.current_agent) =
                   (IF driver = "mas_2" THEN "infrastructure_issue" ELSE "service_issue")

\* the two-tier Router failed, and the turn went on to return a message
C13_Witness ==
    /\ RouterTurnDone /\ driver = "mas_2"
    /\ acct.trace = <<"router_failed", "executor">>
    /\ state.current_agent = Some("infrastructure_issue")
    /\ state.is_routed

\* the Router was invoked in the turn in progress
RouterCalls(a) == Count(a.trace, "router") + Count(a.trace, "router_failed")

\* the category the Router invocation of the turn resolved to
TurnClassification ==
    IF acct.trace[1] = "router_failed"
    THEN RouterFallback(driver)
    ELSE Classify(driver, RouterText(Val(acct.router_content)))

\* a User turn of a re-routing driver starts with the Router, and the state then
\* holds that turn's category and its prompt; a Tool or MultiTool turn has no
\* Router invocation
RerouteTurnOk ==
    (driver \in {"mas_2", "mas_3"} /\ message # None) =>
        IF message.role = "user"
        THEN \/ pc = "router" /\ acct.trace = <<>>
             \/ /\ RoutedThisTurn /\ RouterCalls(acct) = 1
                /\ state.current_agent = Some(TurnClassification)
                /\ state.is_routed
                /\ state.system_messages =
                       <<SystemMessage(AgentPrompt(driver, TurnClassification))>>
        ELSE pc # "router" /\ RouterCalls(acct) = 0

\* C14: in mas_2 and mas_3 the Router is invoked in every turn whose incoming
\* message is a User message and in no Tool or MultiTool turn; a step of a Tool or
\* MultiTool turn leaves current_agent, is_routed and the system message as they
\* are, and a User turn sets current_agent to the turn's classification and the
\* single system message to that category's pre-built prompt.
C14_RerouteOnUserOnly ==
    [][/\ RerouteTurnOk'
       /\ (driver \in {"mas_2", "mas_3"} /\ message' # None /\ message'.role = "tool") =>
              /\ state'.current_agent = state.current_agent
              /\ state'.is_routed = state.is_routed
              /\ state'.system_messages = state.system_messages]_vars

\* a Tool batch answered by the specialist chosen in the User turn before it
C14_Witness ==
    /\ RouterTurnDone /\ driver = "mas_3"
    /\ Len(log) = 2 /\ log[1].user /\ ~log[2].user
    /\ "tool_messages" \in DOMAIN message
    /\ acct.trace = <<"executor">>
    /\ state.current_agent = Some("mobile_data_issue")
    /\ state.system_messages = <<SystemMessage(AgentPrompt("mas_3", "mobile_data_issue"))>>

\* the turn in progress is the first one whose incoming message is a User message
FirstUserTurn ==
    /\ Len(log) > 0
    /\ log[Len(log)].user
    /\ \A j \in 1..(Len(log) - 1) : ~log[j].user

\* C15: in paper_multi_agent the Router is invoked once per conversation, in the
\* turn of the first User message; no Tool or MultiTool turn invokes the Router;
\* once is_routed is true it stays true, and current_agent and the system message
\* do not change again.
C15_RouteOnce ==
    [][driver = "paper_multi_agent" =>
          /\ (message' # None /\ message'.role = "tool") =>
                 pc' # "router" /\ RouterCalls(acct') = 0
          /\ FirstUserTurn' => (pc' = "router" \/ RouterCalls(acct') = 1)
          /\ state.is_routed =>
                 /\ pc' # "router"
                 /\ state'.is_routed
                 /\ state'.current_agent = state.current_agent
                 /\ state'.system_messages = state.system_messages]_vars

\* C16: in mas_3, for any sequence of User, Tool and MultiTool messages, the
\* Executor of a turn runs under the prompt pre-built for the category the Router
\* selected (specialized policy and shared base policy), and the turn returns a
\* message whose metadata generated_by_agent is that category.
C16_GeneratedByCurrentAgent ==
    driver = "mas_3" =>
        /\ pc # "raised"
        /\ (pc = "executor" \/ TurnDone) =>
               /\ ~IsNone(state.current_agent)
               /\ state.system_messages =
                      <<SystemMessage(AgentPrompt("mas_3", Val(state.current_agent)))>>
               /\ state.system_messages[1].content.base_policy = "base_policy"
               /\ Len(state.system_messages[1].content.specialized_policy) = 1
        /\ TurnDone => returned[1].metadata[1]["generated_by_agent"] = Val(state.current_agent)

(***************************************************************************)
(* Properties of failed role invocations                                   *)
(***************************************************************************)
\* a role invocation of the turn in progress has failed
InvocationFailed ==
    \E i \in 1..Len(acct.trace) :
        acct.trace[i] \in {"planner_failed", "router_failed", "verifier_failed", "executor_failed"}

\* C17: a failed Planner, Router, Verifier or Executor invocation is caught
\* inside generate_next_message: the exception does not reach the caller, and
\* the turn ends by returning an assistant message.
C17_FailuresCaught ==
    InvocationFailed =>
        /\ pc # "raised"
        /\ pc = "idle" => ~IsNone(returned)

(***************************************************************************)
(* mav_soft: MAVSoftAgent.  The package imports the driver from            *)
(* tau2.agent.mav_soft.multi_agent; the turn below follows the soft mode   *)
(* of the Verifier Controller: one verification pass, one retry of the     *)
(* Executor after a verdict other than Approve, then the action proceeds.  *)
(***************************************************************************)
\* calls of generate_next_message in a soft-verification conversation
MaxTurnsSoft == 2

\* a plausible slip: a second retry
MAX_SOFT_RETRIES_2 == 1 + 1

\* retries of the Executor after a verdict other than Approve
MAX_SOFT_RETRIES == 1

MAVSoftInitState ==
    [executor_system_messages |-> <<SystemMessage("mav_soft executor prompt")>>,
     messages |-> <<>>]

\* the clarification request that stands in for an empty proposal
ClarificationSoft(proposed) ==
    AssistantMessage(
        Some("I apologize, could you please repeat your question or provide more details?"),
        None, proposed.cost, proposed.usage, Some(<<>>))

\* the message the turn returns: the last proposal, whatever the verdict on it
MAVSoftFinalize(raw, attempt, extra_cost, extra_usage) ==
    LET proposed == IF IsEmptyProposal(raw) THEN ClarificationSoft(raw) ELSE raw
        md == Put(Put(MetadataOrEmpty(proposed), "verifier_attempts", attempt),
                  "generated_by", "mav_soft")
    IN  [proposed EXCEPT !.metadata = Some(md),
                         !.cost = MergeCost(proposed.cost, extra_cost),
                         !.usage = MergeUsage(proposed.usage, extra_usage)]

\* append the incoming message and call the Executor
MAVSoft_Receive(m) ==
    /\ driver = "mav_soft"
    /\ pc = "idle"
    /\ turn' = turn + 1
    /\ message' = m
    /\ state' = [state EXCEPT !.messages = AddIncoming(@, m)]
    /\ local' = [total_extra_cost |-> 0, total_extra_usage |-> ZeroUsage,
                 attempt |-> 0, retry_prompt |-> None, proposed |-> None]
    /\ acct' = NoAcct
    /\ log' = LogTurn(log, m)
    /\ returned' = None
    /\ pc' = "executor"
    /\ UNCHANGED <<caller, llm, llm_args, driver, tools>>

\* the Executor returned the proposal, or the retried proposal
MAVSoft_ExecutorReturns(r) ==
    /\ driver = "mav_soft"
    /\ pc = "executor"
    /\ local' = [local EXCEPT !.proposed = Some(r), !.attempt = @ + 1]
    /\ acct' = SawExecutor(acct, r)
    /\ log' = LogExecutor(log)
    /\ pc' = "verifier"
    /\ UNCHANGED <<caller, llm, llm_args, driver, tools, state, message, returned, turn>>

\* the turn ends with the proposal in hand
MAVSoftProceed(extra_cost, extra_usage) ==
    LET final == MAVSoftFinalize(Val(local.proposed), local.attempt, extra_cost, extra_usage)
    IN  /\ local' = [local EXCEPT !.total_extra_cost = extra_cost,
                                  !.total_extra_usage = extra_usage,
                                  !.proposed = Some(final)]
        /\ state' = [state EXCEPT !.messages = Append(@, Stored(final))]
        /\ returned' = Some(final)
        /\ pc' = "idle"

\* after a verdict: Approve or a used-up retry proceeds, else the Executor is
\* retried with the explanation as feedback
MAVSoftAfterVerdict(verdict, v_cost, v_usage) ==
    LET proposed == Val(local.proposed)
        cost0 == local.total_extra_cost + v_cost
        usage0 == AddUsage(local.total_extra_usage, v_usage)
    IN  IF is_approved(verdict) \/ local.attempt > MAX_SOFT_RETRIES
        THEN MAVSoftProceed(cost0, usage0)
        ELSE /\ local' = [local EXCEPT !.total_extra_cost = AddCost(cost0, proposed.cost),
                                       !.total_extra_usage = AddUsage(usage0, proposed.usage),
                                       !.retry_prompt = Some(verdict.explanation)]
             /\ pc' = "executor"
             /\ UNCHANGED <<state, returned>>

\* the Verifier returned a response
MAVSoft_VerifierReturns(v) ==
    /\ driver = "mav_soft"
    /\ pc = "verifier"
    /\ acct' = SawVerdict(SawAux(acct, "verifier", v), parse(v.content))
    /\ MAVSoftAfterVerdict(parse(v.content), CostOf(v.cost), v.usage)
    /\ UNCHANGED <<caller, llm, llm_args, driver, tools, message, turn, log>>

\* the Verifier invocation failed: counted as Approve
MAVSoft_VerifierFails(e) ==
    /\ driver = "mav_soft"
    /\ pc = "verifier"
    /\ acct' = SawFailure(acct, "verifier")
    /\ MAVSoftAfterVerdict(VerifierErrorVerdict(e), 0, None)
    /\ UNCHANGED <<caller, llm, llm_args, driver, tools, message, turn, log>>

\* the retried proposal goes out without a second verification pass
MAVSoft_ProceedUnverified ==
    /\ driver = "mav_soft"
    /\ pc = "verifier"
    /\ local.attempt > MAX_SOFT_RETRIES
    /\ MAVSoftProceed(local.total_extra_cost, local.total_extra_usage)
    /\ UNCHANGED <<caller, llm, llm_args, driver, tools, message, turn, acct, log>>

InitSoft ==
    /\ driver = "mav_soft"
    /\ state = MAVSoftInitState
    /\ InitCommon

NextSoft ==
    \/ turn < MaxTurnsSoft /\ \E m \in HardIncomingMessages : MAVSoft_Receive(m)
    \/ \E r \in ExecutorResponses : MAVSoft_ExecutorReturns(r)
    \/ \E v \in VerifierResponses : MAVSoft_VerifierReturns(v)
    \/ \E e \in ErrorTexts : MAVSoft_VerifierFails(e)
    \/ MAVSoft_ProceedUnverified

SpecSoft == InitSoft /\ [][NextSoft]_vars

(***************************************************************************)
(* Properties of the soft-verification turn                                *)
(***************************************************************************)
\* C18: in one soft-verification turn the Executor is invoked at most 2 times
\* (the proposal and at most one retry after a verdict other than Approve), and
\* a turn that has ended has returned an assistant message, whatever the first
\* and the second verdict were.
C18_SoftAtMostTwo ==
    driver = "mav_soft" =>
        /\ ExecutorCalls <= 2
        /\ ExecutorCalls = 2 => acct.blocks >= 1
        /\ (pc = "idle" /\ turn > 0) =>
               /\ ~IsNone(returned)
               /\ Val(returned).role = "assistant"
               /\ Stored(Val(returned)) = state.messages[Len(state.messages)]

\* both verdicts of the turn blocked, and the retried proposal was returned
C18_Witness ==
    /\ driver = "mav_soft" /\ pc = "idle" /\ ~IsNone(returned)
    /\ acct.trace = <<"executor", "verifier", "executor", "verifier">>
    /\ acct.blocks = 2
    /\ returned[1].content = Val(acct.proposal).content
    /\ returned[1].metadata[1]["verifier_attempts"] = 2

(***************************************************************************)
(* Properties of a failed replanning                                       *)
(***************************************************************************)
\* the step is the failure of a replanning Planner invocation of map_adaptive
ReplanFailsStep ==
    /\ driver = "map_adaptive"
    /\ pc = "planner" /\ ~local.initial
    /\ acct'.trace = <<"planner_failed">>

\* C19: in the adaptive driver, a failed replanning Planner invocation does not
\* reset steps_since_replan: the counter keeps its value over the failure, and
\* the turn ends with the value before the turn plus one, so that an interval
\* trigger is met again on the next turn.
C19_FailedReplanKeepsCounter ==
    [][/\ ReplanFailsStep => state'.steps_since_replan = state.steps_since_replan
       /\ (driver = "map_adaptive" /\ pc = "executor" /\ pc' = "idle"
             /\ acct.trace = <<"planner_failed">> /\ ~local.initial /\ ~local.has_error) =>
              state'.steps_since_replan > REPLAN_INTERVAL]_vars

\* the step is the Executor's return in a turn whose replanning has failed
ExecutorAfterFailedReplanStep ==
    /\ driver = "map_adaptive"
    /\ pc = "executor" /\ ~local.initial
    /\ acct.trace = <<"planner_failed">>
    /\ acct'.trace = <<"planner_failed", "executor">>

\* C20: in the adaptive driver, a failed replanning Planner invocation leaves
\* state.plan as it was before the turn, and the Executor is invoked next in the
\* same turn, under the system prompt that embeds this previous plan; the turn
\* ends with the same plan.
C20_FailedReplanKeepsPlan ==
    [][/\ ReplanFailsStep =>
              /\ state'.plan = state.plan
              /\ pc' = "executor"
              /\ state'.executor_system_messages =
                     <<SystemMessage(_build_executor_system_prompt(state.plan))>>
              /\ Val(state.plan) # "" =>
                     state'.executor_system_messages[1].content.plan = Val(state.plan)
       /\ ExecutorAfterFailedReplanStep =>
              /\ state'.plan = state.plan
              /\ state'.executor_system_messages = state.executor_system_messages
              /\ pc' = "idle" /\ ~IsNone(returned')]_vars

\* a replanning triggered by a tool error failed, and the turn ended under the plan of turn 1
C20_Witness ==
    /\ driver = "map_adaptive" /\ pc = "idle" /\ ~IsNone(returned)
    /\ Len(log) = 2 /\ log[1].planner_ok /\ log[2].error /\ log[2].planner /\ ~log[2].planner_ok
    /\ acct.trace = <<"planner_failed", "executor">>
    /\ state.plan = Some("1. Check the line status. 2. Ask the user to restart.")
    /\ state.executor_system_messages[1].content.plan
           = "1. Check the line status. 2. Ask the user to restart."

(***************************************************************************)
(* Properties of a successful replanning                                   *)
(***************************************************************************)
\* the turn in progress or just finished began with a replanning that succeeded
ReplanSucceeded ==
    /\ driver = "map_adaptive"
    /\ acct.trace # <<>> /\ acct.trace[1] = "planner"
    /\ local.needs_replan

\* the plan text the Planner invocation of the turn produced (`response.content or ""`)
NewPlanText == IF ~IsNone(Val(acct.planner_content)) /\ Val(Val(acct.planner_content)) # ""
               THEN Val(Val(acct.planner_content)) ELSE ""

\* C21 as stated: after a turn in which a replan succeeded, steps_since_replan
\* is 0 once the turn has returned and state.plan is the new plan text.
C21_ReplanLeavesZero ==
    (ReplanSucceeded /\ pc = "idle" /\ ~IsNone(returned)) =>
        /\ state.steps_since_replan = 0
        /\ state.plan = Some(NewPlanText)

\* C21 amended: a successful replan sets state.plan to the new plan text and the
\* counter to 0 before the Executor runs; the Executor step of the same turn is
\* counted, so the counter is 1 once the turn has returned, the plan still being
\* the new text and the system message the prompt built from it.
C21_ReplanResetsThenCounts ==
    ReplanSucceeded =>
        /\ state.plan = Some(NewPlanText)
        /\ state.executor_system_messages =
               <<SystemMessage(_build_executor_system_prompt(Some(NewPlanText)))>>
        /\ pc = "executor" => state.steps_since_replan = 0
        /\ (pc = "idle" /\ ~IsNone(returned)) => state.steps_since_replan = 1

\* an interval replan in turn 4 that replaced the plan of turn 1 by another text
C21_Witness ==
    /\ ReplanSucceeded /\ pc = "idle" /\ ~IsNone(returned)
    /\ Len(log) = 4 /\ log[1].planner_ok /\ ~log[2].planner /\ ~log[3].planner
    /\ ~log[4].error /\ log[4].planner_ok
    /\ state.plan = Some("1. Reset the APN settings.")
    /\ state.steps_since_replan = 1

(***************************************************************************)
(* Properties of a failed initial planning                                 *)
(***************************************************************************)
\* the turn in progress or just finished began with the initial Planner
\* invocation, which failed
InitialPlanFailed ==
    /\ driver \in {"map_static", "map_adaptive"}
    /\ acct.trace # <<>> /\ acct.trace[1] = "planner_failed"
    /\ driver = "map_adaptive" => local.initial

\* an earlier turn made the initial Planner invocation, which failed
InitialPlanFailedBefore ==
    \E j \in 1..(Len(log) - 1) :
        /\ log[j].planner /\ ~log[j].planner_ok
        /\ \A i \in 1..(j - 1) : ~log[i].planner

Expanded(m) == IF "tool_messages" \in DOMAIN m THEN m.tool_messages ELSE <<m>>

\* C23: in every driver the transcript only grows at its end: the first step
\* of a turn adds the incoming message (a MultiTool batch as its member Tool
\* messages, in order), the step that returns adds the returned assistant message
\* as last entry, no other step (a step between two turns included) changes the
\* transcript, and no MultiTool or System message is ever an entry.
C23_TranscriptAppendOnly ==
    [][/\ turn' = turn + 1 => state'.messages = state.messages \o Expanded(message')
       /\ (turn' = turn /\ pc \in {"idle", "raised"}) => state' = state
       /\ (turn' = turn /\ pc \notin {"idle", "raised"} /\ pc' = "idle") =>
              /\ ~IsNone(returned') /\ Val(returned').role = "assistant"
              /\ Len(state'.messages) = Len(state.messages) + 1
              /\ SubSeq(state'.messages, 1, Len(state.messages)) = state.messages
              /\ state'.messages[Len(state'.messages)].role = "assistant"
              /\ state'.messages[Len(state'.messages)].content = Val(returned').content
              /\ state'.messages[Len(state'.messages)].tool_calls = Val(returned').tool_calls
       /\ (turn' = turn /\ pc' # "idle") => state'.messages = state.messages
       /\ \A i \in 1..Len(state'.messages) :
              /\ state'.messages[i].role \in {"user", "tool", "assistant"}
              /\ "tool_messages" \notin DOMAIN state'.messages[i]]_vars

\* a Tool batch in turn 2 of an adaptive conversation: user, assistant, the two
\* members of the batch, assistant
C23_Witness ==
    /\ driver = "map_adaptive" /\ pc = "idle" /\ ~IsNone(returned)
    /\ Len(log) = 2 /\ log[1].user /\ "tool_messages" \in DOMAIN message
    /\ Len(state.messages) = 5
    /\ state.messages[3].role = "tool" /\ ~state.messages[3].error
    /\ state.messages[4].role = "tool" /\ state.messages[4].error
    /\ state.messages[5].content = returned[1].content

(***************************************************************************)
(* Further properties of the hard-verification turn                        *)
(***************************************************************************)
\* C24: in a hard-verification turn the first Approve verdict ends the loop: it
\* is the last invocation of the turn, and the turn has returned the proposal
\* that was approved (its content and tool calls, with metadata and merged
\* cost), on whichever attempt 1..5 the approval came.
C24_ApproveEndsLoop ==
    (driver = "mav_hard" /\ acct.approvals >= 1) =>
        /\ acct.approvals = 1
        /\ pc = "idle" /\ ~IsNone(returned)
        /\ acct.trace[Len(acct.trace)] = "verifier"
        /\ ExecutorCalls \in 1..5 /\ Len(acct.trace) = 2 * ExecutorCalls
        /\ returned[1].content = Val(acct.proposal).content
        /\ returned[1].tool_calls = Val(acct.proposal).tool_calls
        /\ returned[1].metadata[1]["verifier_verdict"] = "APPROVE"
        /\ CostOf(returned[1].cost) >= CostOf(Val(acct.proposal).cost)
        /\ state.messages[Len(state.messages)] = Stored(Val(acct.proposal))

\* the fifth proposal was approved after four blocked ones
C24_Witness ==
    /\ HardTurnDone
    /\ acct.approvals = 1 /\ acct.blocks = 4
    /\ Len(acct.trace) = 10
    /\ returned[1].content = Some("Please restart your phone.")
    /\ returned[1].metadata[1]["verifier_attempts"] = 5

(***************************************************************************)
(* set_seed.  The method is the same in every driver, and every generate   *)
(* call of every driver passes model=self.llm and **self.llm_args.         *)
(***************************************************************************)
MaxTurnsSeed == 2

\* seeds a caller may hand to set_seed
Seeds == {42, 7}

\* option mappings a driver may be constructed with (llm_args=None gives {})
SeedInitArgs == { <<>>, [temperature |-> 0, seed |-> 300] }

\* self.llm_args.setdefault("seed", seed): an existing seed is kept
SetSeedArgsKeepOld(args, seed) ==
    IF "seed" \in DOMAIN args THEN args ELSE Put(args, "seed", seed)

\* self.llm_args["seed"] = seed
SetSeedArgs(args, seed) == Put(args, "seed", seed)

\* set_seed(seed), called between two turns; local holds its parameter
set_seed(seed) ==
    /\ pc \in {"idle", "raised"}
    /\ local' = [seed |-> seed]
    /\ IF IsNone(llm)
         THEN /\ pc' = "raised"              \* ValueError("LLM is not set")
              /\ UNCHANGED llm_args
         ELSE /\ pc' = "idle"
              /\ llm_args' = SetSeedArgs(llm_args, seed)
    /\ UNCHANGED <<caller, llm, driver, tools, state, message, returned, turn, acct, log>>

SeedIncomingMessages == { UserHello, ToolErr, MultiToolMessage(<<ToolOk, ToolErr>>) }

SeedVerifierResponses ==
    { [content |-> t, cost |-> Some(1), usage |-> Some(UsageA)] :
        t \in { <<<<"APPROVE">>, <<"Looks", "fine.">>>>,
                <<<<"Reject">>, <<"Identity", "not", "verified.">>>> } }

SeedRouterResponses ==
    { [content |-> Some(<<"mobile_data_issue">>), cost |-> Some(1), usage |-> Some(UsageA)] }

InitSeed ==
    /\ llm \in {None, Some("gpt-4.1")}
    /\ llm_args \in SeedInitArgs
    /\ \/ driver = "mav_hard" /\ state = MAVHardInitState
       \/ driver = "map_static" /\ state = MAPStaticInitState
       \/ driver = "map_adaptive" /\ state = MAPAdaptiveInitState
       \/ driver \in {"mas_2", "mas_3", "paper_multi_agent"} /\ state = RouterInitState
    /\ InitConversation

NextSeed ==
    \/ \E seed \in Seeds : set_seed(seed)
    \/ turn < MaxTurnsSeed /\ \E m \in SeedIncomingMessages : MAVHard_Receive(m)
    \/ \E r \in FlowExecutorResponses : MAVHard_ExecutorReturns(r)
    \/ MAVHard_ExecutorFails
    \/ \E v \in SeedVerifierResponses : MAVHard_VerifierReturns(v)
    \/ \E e \in ErrorTexts : MAVHard_VerifierFails(e)
    \/ turn < MaxTurnsSeed /\ \E m \in SeedIncomingMessages : MAPStatic_Receive(m)
    \/ \E r \in FlowPlannerResponses : MAPStatic_PlannerReturns(r)
    \/ MAPStatic_PlannerFails
    \/ \E r \in FlowExecutorResponses : MAPStatic_ExecutorReturns(r)
    \/ MAPStatic_ExecutorFails
    \/ turn < MaxTurnsSeed /\ \E m \in SeedIncomingMessages : MAPAdaptive_Receive(m)
    \/ \E r \in FlowPlannerResponses : MAPAdaptive_PlannerReturns(r)
    \/ MAPAdaptive_PlannerFails
    \/ \E r \in FlowExecutorResponses : MAPAdaptive_ExecutorReturns(r)
    \/ MAPAdaptive_ExecutorFails
    \/ turn < MaxTurnsSeed /\ \E m \in SeedIncomingMessages : Router_Receive(m)
    \/ \E r \in SeedRouterResponses : Router_RouterReturns(r)
    \/ Router_RouterFails
    \/ \E r \in FlowExecutorResponses : Router_ExecutorReturns(r)
    \/ Router_ExecutorFails

SpecSeed == InitSeed /\ [][NextSeed]_vars

\* a step of set_seed: taken between two turns without starting one
SetSeedStep == pc \in {"idle", "raised"} /\ turn' = turn

\* C25: set_seed(seed) raises and leaves the option mapping as it is when no
\* model identifier is configured; otherwise it ends without error with the
\* mapping's seed equal to the given seed, whether or not a seed was set before,
\* and the other options untouched; nothing else changes the mapping, and every
\* role invocation is made with the seed the mapping holds.
C25_SetSeed ==
    [][ /\ SetSeedStep =>
             IF IsNone(llm)
               THEN pc' = "raised" /\ llm_args' = llm_args
               ELSE /\ pc' = "idle"
                    /\ DOMAIN llm_args' = DOMAIN llm_args \cup {"seed"}
                    /\ llm_args'["seed"] = local'.seed
                    /\ \A k \in DOMAIN llm_args \ {"seed"} : llm_args'[k] = llm_args[k]
        /\ ~SetSeedStep => llm_args' = llm_args
        /\ Len(acct'.trace) = Len(acct.trace) + 1 =>
             /\ Len(acct'.seeds) = Len(acct'.trace)
             /\ acct'.seeds[Len(acct'.seeds)] =
                  (IF "seed" \in DOMAIN llm_args THEN Some(llm_args["seed"]) ELSE None)
      ]_vars

\* a seed 300 given at construction was overwritten by 42, and both role
\* invocations of the next turn were made with 42
C25_Witness ==
    /\ "temperature" \in DOMAIN llm_args /\ llm_args["seed"] = 42
    /\ pc = "idle" /\ ~IsNone(returned)
    /\ Len(acct.seeds) >= 2
    /\ \A i \in 1..Len(acct.seeds) : acct.seeds[i] = Some(42)

(***************************************************************************)
(* Order and number of the role invocations of a turn                      *)
(***************************************************************************)
ExecutorEntries == {"executor", "executor_failed"}
VerifierEntries == {"verifier", "verifier_failed"}
AuxEntries == {"planner", "planner_failed", "router", "router_failed"}

\* C26: the role invocations of a turn are totally ordered.  A Planner or
\* Router invocation is the first of its turn and precedes the Executor, and
\* nothing follows the Executor in those drivers; in hard verification the
\* invocations alternate Executor, Verifier, ..., starting with the Executor,
\* and every turn, once it has ended, has ended with a Verifier, with as many
\* Verifier as Executor invocations.
C26_RoleOrder ==
    /\ \A i \in 1..Len(acct.trace) :
         IF driver = "mav_hard"
           THEN acct.trace[i] \in (IF i % 2 = 1 THEN ExecutorEntries ELSE VerifierEntries)
           ELSE /\ acct.trace[i] \in AuxEntries \cup ExecutorEntries
                /\ acct.trace[i] \in AuxEntries => i = 1
                /\ acct.trace[i] \in ExecutorEntries => i = Len(acct.trace)
    /\ pc = "verifier" => Len(acct.trace) % 2 = 1
    /\ (driver = "mav_hard" /\ pc = "executor") => Len(acct.trace) % 2 = 0
    /\ (driver # "mav_hard" /\ pc = "executor") =>
          \A i \in 1..Len(acct.trace) : acct.trace[i] \in AuxEntries
    /\ pc \in {"planner", "router"} => acct.trace = <<>>
    /\ (driver = "mav_hard" /\ pc \in {"idle", "raised"} /\ acct.trace # <<>>) =>
          /\ Len(acct.trace) >= 2
          /\ acct.trace[Len(acct.trace)] \in VerifierEntries
          /\ VerifierCalls = ExecutorCalls

(***************************************************************************)
(* The plan and router drivers over conversations long enough for the      *)
(* replan interval to elapse                                               *)
(***************************************************************************)
InitSingle == InitStatic \/ InitAdaptive \/ InitRouter

NextSingle ==
    \/ NextStatic
    \/ NextAdaptive
    \/ NextRouter

SpecSingle == InitSingle /\ [][NextSingle]_vars

AuxCalls == Cardinality({i \in 1..Len(acct.trace) : acct.trace[i] \in AuxEntries})

\* the turn in progress came in with a tool error after three executed steps
\* without replanning: both replan triggers hold
BothTriggers ==
    /\ driver = "map_adaptive"
    /\ Len(log) >= 4
    /\ log[Len(log)].error
    /\ log[Len(log) - 3].planner /\ log[Len(log) - 3].executor
    /\ ~log[Len(log) - 2].planner /\ log[Len(log) - 2].executor
    /\ ~log[Len(log) - 1].planner /\ log[Len(log) - 1].executor

\* C27: in the static-plan, adaptive-plan and router drivers no turn invokes the
\* Executor more than once or the auxiliary roles (Planner, Router) more than
\* once in all, and a turn that returns has invoked the Executor exactly once;
\* a turn in which both replan triggers hold makes exactly one Planner call.
C27_OneExecutorOneAux ==
    driver \in {"map_static", "map_adaptive", "mas_2", "mas_3", "paper_multi_agent"} =>
        /\ ExecutorCalls <= 1
        /\ AuxCalls <= 1
        /\ TurnDone => ExecutorCalls = 1
        /\ (BothTriggers /\ pc \in {"executor", "idle"}) => PlannerCalls(acct) = 1

\* the fourth turn brought a tool error three steps after the plan was made:
\* one replanning invocation, one Executor invocation
C27_Witness ==
    /\ BothTriggers /\ TurnDone
    /\ Len(log) = 4
    /\ acct.trace = <<"planner", "executor">>

(***************************************************************************)
(* Metadata of the hard-verification turn                                  *)
(***************************************************************************)
\* C28: in a hard-verification turn that has returned, the metadata's
\* verifier_cost and verifier_usage are the sums of cost and of token usage
\* over the Verifier invocations of the turn, and nothing else.
C28_VerifierCostOnly ==
    HardTurnDone =>
        /\ returned[1].metadata[1]["verifier_cost"] = acct.aux_cost
        /\ returned[1].metadata[1]["verifier_usage"] =
              [completion_tokens |-> acct.aux_completion, prompt_tokens |-> acct.aux_prompt]

\* C29: in a hard-verification turn that has returned, the metadata's
\* verifier_attempts is the number of Executor invocations of the turn, between
\* 1 and 5, and verifier_verdict and verifier_explanation are those the last
\* Verifier invocation gave (APPROVE with the error text when it failed).
C29_AttemptsAndLastVerdict ==
    HardTurnDone =>
        LET md == returned[1].metadata[1]
        IN  /\ md["verifier_attempts"] = ExecutorCalls
            /\ ExecutorCalls \in 1..5
            /\ IF acct.trace[Len(acct.trace)] = "verifier_failed"
                 THEN /\ md["verifier_verdict"] = APPROVE
                      /\ md["verifier_explanation"] \in
                             { << <<"Verifier", "error:">> \o e >> : e \in ErrorTexts }
                 ELSE /\ md["verifier_verdict"] = Val(acct.verdict).verdict
                      /\ md["verifier_explanation"] = Val(acct.verdict).explanation

\* four proposals were blocked and the Verifier failed on the fifth
C29_Witness ==
    /\ HardTurnDone
    /\ Len(acct.trace) = 10 /\ acct.trace[10] = "verifier_failed"
    /\ acct.blocks = 4
    /\ Val(acct.verdict).verdict # APPROVE
    /\ returned[1].metadata[1]["verifier_attempts"] = 5
    /\ returned[1].metadata[1]["verifier_verdict"] = APPROVE

(***************************************************************************)
(* The message list handed to the Executor                                 *)
(***************************************************************************)
\* the active system message list of the state
ActiveSystemMessages ==
    IF driver \in {"mas_2", "mas_3", "paper_multi_agent"}
    THEN state.system_messages
    ELSE state.executor_system_messages

\* `messages` of the generate call the Executor invocation about to be made gets
ExecutorInput ==
    IF driver = "mav_hard"
    THEN MAVHardExecutorInput(state, local.retry_prompt)
    ELSE ActiveSystemMessages \o state.messages

\* C30: at every Executor invocation of every driver the message list passed
\* is exactly one system message followed by the whole transcript: the active
\* system message list has length 1, and no system message is stored in the
\* transcript.
C30_ExecutorInputShape ==
    pc = "executor" =>
        /\ Len(ActiveSystemMessages) = 1
        /\ ExecutorInput = <<ActiveSystemMessages[1]>> \o state.messages
        /\ ExecutorInput[1].role = "system"
        /\ \A i \in 1..Len(state.messages) : state.messages[i].role # "system"

(***************************************************************************)
(* Reject and Suggest in the hard-verification loop.  The rest of a turn,  *)
(* from its first verification on, is run for every sequence of verdict    *)
(* labels, and for the same sequence with every SUGGEST replaced by        *)
(* REJECT: two sequences that differ by swapping the two labels at some    *)
(* positions have the same replacement.                                    *)
(***************************************************************************)
\* REJECT for both blocking labels
BlockLabel(l) == IF l = SUGGEST THEN REJECT ELSE l

\* the places a label is written to: the verdict, the retry feedback and the
\* metadata of a message
BlockVerdict(v) == [v EXCEPT !.verdict = BlockLabel(@)]

BlockOptVerdict(o) == IF IsNone(o) THEN o ELSE Some(BlockVerdict(Val(o)))

BlockMetadata(m) ==
    IF IsNone(m.metadata) \/ "verifier_verdict" \notin DOMAIN Val(m.metadata)
    THEN m
    ELSE [m EXCEPT !.metadata =
              Some([Val(m.metadata) EXCEPT !["verifier_verdict"] = BlockLabel(@)])]

BlockOptMessage(o) == IF IsNone(o) THEN o ELSE Some(BlockMetadata(Val(o)))

BlockLocal(loc) ==
    [loc EXCEPT !.verdict = BlockOptVerdict(@),
                !.retry_prompt = BlockOptVerdict(@),
                !.proposed = BlockOptMessage(@)]

\* the sequences of max_attempts verdict labels
LabelSeqs == [1..max_attempts -> {APPROVE, REJECT, SUGGEST}]

\* the rest of the turn from a Verifier invocation on (lines 455-553): the
\* Verifier gives the verdicts of `labels` in their order, every retry of the
\* Executor returns r.  The result holds the end of the turn, the number of
\* Verifier invocations made in it and the feedback the retries were given.
RECURSIVE MAVHardRestOfTurn(_, _, _, _, _, _)
MAVHardRestOfTurn(loc, st, labels, r, calls, feedback) ==
    LET verdict == VerifierVerdict(Head(labels), <<<<"Identity", "not", "verified.">>>>)
        out == MAVHardLoopBody(loc, st, verdict, 1, Some(UsageA))
    IN  IF out.pc = "idle" \/ Len(labels) = 1
        THEN [local |-> out.local, state |-> out.state, returned |-> out.returned,
              pc |-> out.pc,
              executor_calls |-> out.local.attempt,
              verifier_calls |-> calls + 1,
              feedback |-> feedback]
        ELSE MAVHardRestOfTurn(MAVHardAfterExecutor(out.local, r), out.state, Tail(labels), r,
                               calls + 1, Append(feedback, out.local.retry_prompt))

\* C31: Reject and Suggest are interchangeable for the control flow of a
\* hard-verification turn.  Whatever the verdict labels of the turn are, the
\* turn ends as it does for the sequence in which every SUGGEST is a REJECT:
\* with the same number of Executor and of Verifier invocations, the same
\* transcript, the same returned proposal or escalation with the same cost and
\* usage; only the label in the retry feedback and in the metadata differs.
\* Hence any two sequences that differ by swapping the two labels at some
\* positions give the same turn.
C31_RejectSuggestInterchangeable ==
    (driver = "mav_hard" /\ pc = "verifier" /\ local.attempt = 1) =>
        \A labels \in LabelSeqs :
            LET r == Val(local.proposed)
                one == MAVHardRestOfTurn(local, state, labels, r, 0, <<>>)
                other == MAVHardRestOfTurn(local, state,
                                           [i \in 1..max_attempts |-> BlockLabel(labels[i])],
                                           r, 0, <<>>)
            IN  /\ one.pc = "idle" /\ other.pc = "idle"
                /\ one.executor_calls = other.executor_calls
                /\ one.verifier_calls = other.verifier_calls
                /\ one.state = other.state
                /\ Val(one.returned).content = Val(other.returned).content
                /\ Val(one.returned).tool_calls = Val(other.returned).tool_calls
                /\ Val(one.returned).cost = Val(other.returned).cost
                /\ Val(one.returned).usage = Val(other.returned).usage
                /\ BlockOptMessage(one.returned) = other.returned
                /\ BlockLocal(one.local) = other.local
                /\ Len(one.feedback) = Len(other.feedback)
                /\ \A i \in 1..Len(one.feedback) :
                      BlockOptVerdict(one.feedback[i]) = other.feedback[i]

\* the fifth proposal is being verified after four blocking verdicts, the last
\* of them a Suggest
C31_Witness ==
    /\ driver = "mav_hard" /\ pc = "verifier"
    /\ local.attempt = 5 /\ acct.blocks = 4
    /\ Val(local.verdict).verdict = SUGGEST
    /\ Val(local.retry_prompt).verdict = SUGGEST

(***************************************************************************)
(* VerifierVerdict.parse on its own, over a family of response texts       *)
(***************************************************************************)
MaxLineWords == 2

\* words of a first line: labels in several spellings, a label inside a
\* longer word, and a word without label
ParseWords == {"approve", "Reject", "suggest:", "unclear", "DISAPPROVE"}

\* the sequences of at most n words of the set W
RECURSIVE SeqsUpTo(_, _)
SeqsUpTo(W, n) ==
    IF n = 0 THEN {<<>>}
    ELSE SeqsUpTo(W, n - 1) \cup
         {Append(l, w) : l \in {x \in SeqsUpTo(W, n - 1) : Len(x) = n - 1}, w \in W}

\* response texts: blank lines or none in front, a line, and what follows it
ParseTexts ==
    {pre \o <<l>> \o post :
        pre \in {<<>>, <<<<>>>>},
        l \in SeqsUpTo(ParseWords, MaxLineWords),
        post \in {<<>>, <<<<"Looks", "fine.">>>>, <<<<>>, <<"Looks", "fine.">>, <<>>>>}}
    \cup {<<>>}

InitParse ==
    /\ driver = "mav_hard"
    /\ state = MAVHardInitState
    /\ InitAgent
    /\ caller = None
    /\ tools = <<"get_details">>
    /\ pc = "parse"
    /\ message = None
    /\ local \in {[response_text |-> t] : t \in ParseTexts}
    /\ returned = None
    /\ turn = 0
    /\ acct = NoAcct
    /\ log = <<>>

\* VerifierVerdict.parse(response_text) returns
VerifierVerdict_parse ==
    /\ pc = "parse"
    /\ returned' = Some(parse(local.response_text))
    /\ pc' = "parsed"
    /\ UNCHANGED <<caller, llm, llm_args, driver, tools, state, message, local, turn, acct, log>>

NextParse == VerifierVerdict_parse

SpecParse == InitParse /\ [][NextParse]_vars

AllBlank(t) == \A i \in 1..Len(t) : t[i] = <<>>

\* the first non-blank line of a text that has one
FirstNonBlank(t) == t[CHOOSE i \in 1..Len(t) : t[i] # <<>> /\ \A j \in 1..(i - 1) : t[j] = <<>>]

Labels == {APPROVE, REJECT, SUGGEST}

\* the label the claim gives a first line
LabelOfLine(line) ==
    IF \E l \in Labels : WordStartsWith(Upper(line[1]), l)
    THEN CHOOSE l \in Labels : WordStartsWith(Upper(line[1]), l)
    ELSE IF LineContains(line, REJECT) THEN REJECT
    ELSE IF LineContains(line, SUGGEST) THEN SUGGEST
    ELSE APPROVE

\* C32: VerifierVerdict.parse returns for every response text exactly one of
\* the three labels: the one the first non-blank line starts with
\* (case-insensitive); failing that, a label contained in that line, Reject
\* before Suggest before Approve; failing that, and for an empty or blank text,
\* Approve.
C32_ParseLabel ==
    pc = "parsed" =>
        LET t == local.response_text
            v == returned[1]
        IN  /\ v.verdict \in Labels
            /\ IF AllBlank(t) THEN v.verdict = APPROVE
               ELSE /\ Cardinality({l \in Labels : WordStartsWith(Upper(FirstNonBlank(t)[1]), l)}) <= 1
                    /\ v.verdict = LabelOfLine(FirstNonBlank(t))

\* after a blank line, a first line that starts with no label and contains
\* APPROVE inside a word and REJECT: the verdict is REJECT
C32_Witness ==
    /\ pc = "parsed"
    /\ local.response_text = <<<<>>, <<"DISAPPROVE", "Reject">>, <<"Looks", "fine.">>>>
    /\ returned[1].verdict = REJECT
    /\ returned[1].explanation = <<<<"Looks", "fine.">>>>

(***************************************************************************)
(* The response parsing of the two-tier router on its own                  *)
(***************************************************************************)
MaxRouteWords == 2

\* words of a Router response: canonical tokens, names of the three-category
\* router and their parts, and a word without keyword
RouteWords ==
    {"infrastructure_issue", "Application_Issue", "Service_Issue", "service",
     "mobile_data_issue", "MMS", "data", "XYZ"}

\* response.content of the Router: None, empty or some words
RouteContents == {None} \cup {Some(t) : t \in SeqsUpTo(RouteWords, MaxRouteWords)}

InitRoute ==
    /\ driver = "mas_2"
    /\ state = RouterInitState
    /\ InitAgent
    /\ caller = None
    /\ tools = <<"get_details">>
    /\ pc = "classify"
    /\ message = None
    /\ local \in {[content |-> c] : c \in RouteContents}
    /\ returned = None
    /\ turn = 0
    /\ acct = NoAcct
    /\ log = <<>>

\* lines 229-257 of MAS2Agent._route_to_agent: the response is resolved
MAS2_route_to_agent ==
    /\ pc = "classify"
    /\ returned' = Some(MAS2Classify(RouterText(local.content)))
    /\ pc' = "classified"
    /\ UNCHANGED <<caller, llm, llm_args, driver, tools, state, message, local, turn, acct, log>>

NextRoute == MAS2_route_to_agent

SpecRoute == InitRoute /\ [][NextRoute]_vars

\* the categories of the canonical tokens a text contains
CanonicalIn(text) ==
    {c \in {INFRASTRUCTURE_ISSUE, APPLICATION_ISSUE} :
        \/ c = INFRASTRUCTURE_ISSUE /\ TextHas(text, "infrastructure")
        \/ c = APPLICATION_ISSUE /\ TextHas(text, "application")}

\* the categories of the three-category synonyms a text contains
LegacyIn(text) ==
    {c \in {INFRASTRUCTURE_ISSUE, APPLICATION_ISSUE} :
        \/ c = INFRASTRUCTURE_ISSUE /\ TextHas(text, "service")
        \/ c = APPLICATION_ISSUE /\
              (TextHas(text, "mobile_data") \/ TextHas(text, "mms") \/ TextHas(text, "data"))}

\* C33: the two-tier router resolves a response in a fixed priority order:
\* the canonical token it is equal to, case-insensitive; else the category of a
\* canonical token it contains; else the category of a three-category synonym
\* it contains; else infrastructure_issue.  A response with a canonical token
\* and a conflicting synonym gets the canonical token's category.
C33_RouterPriority ==
    pc = "classified" =>
        LET text == RouterText(local.content)
            issue_type == returned[1]
        IN  IF text = <<INFRASTRUCTURE_ISSUE>> \/ text = <<APPLICATION_ISSUE>>
            THEN issue_type = text[1]
            ELSE IF CanonicalIn(text) # {} THEN issue_type \in CanonicalIn(text)
            ELSE IF LegacyIn(text) # {} THEN issue_type \in LegacyIn(text)
            ELSE issue_type = INFRASTRUCTURE_ISSUE

\* "Application_Issue service": the canonical token wins over the synonym,
\* which alone would give infrastructure_issue
C33_Witness ==
    /\ pc = "classified"
    /\ local.content = Some(<<"Application_Issue", "service">>)
    /\ returned[1] = APPLICATION_ISSUE

(***************************************************************************)
(* Several conversations on one driver instance.  The caller owns a        *)
(* Conversation State per conversation and hands one of them to each call  *)
(* of generate_next_message.  It first runs a conversation alone and       *)
(* keeps its outcome, then it drives two further conversations on the same *)
(* instance, switching between them after any turn.  The incoming message  *)
(* and the role responses of the n-th turn of a conversation are those of  *)
(* the caller's script, so that conversations with the same number of      *)
(* turns have been given the same inputs.                                  *)
(***************************************************************************)
MaxTurnsTwo == 2

\* the message histories a conversation is opened with: none, or an earlier
\* exchange of a User message and an assistant message
Histories ==
    { None,
      Some(<<UserHello,
             Stored(AssistantMessage(Some("Please restart your phone."), None, None, None, None))>>) }

\* get_init_state(message_history) of driver d: the history, None standing for
\* the empty one, is copied into the transcript; the other fields do not
\* depend on it
get_init_state(d, message_history) ==
    LET fresh == CASE d = "mav_hard" -> MAVHardInitState
                   [] d = "map_static" -> MAPStaticInitState
                   [] d = "map_adaptive" -> MAPAdaptiveInitState
                   [] OTHER -> RouterInitState
    IN  [fresh EXCEPT !.messages = IF IsNone(message_history) THEN <<>> ELSE Val(message_history)]

\* a plausible slip: the driver keeps one state and hands it out again
NewConversationStateReused(d, current, message_history) == current

\* the state a further conversation starts with
NewConversationState(d, current, message_history) == get_init_state(d, message_history)

ApproveText == <<<<"APPROVE">>, <<"Looks", "fine.">>>>
RejectText == <<<<"Reject">>, <<"Identity", "not", "verified.">>>>

\* the inputs of one turn: the incoming message, the Executor's response and
\* the response of the driver's other role (for the Verifier: to the first
\* proposal and to the later ones)
ScriptTurns(d) ==
    LET e == CHOOSE r \in FlowExecutorResponses : TRUE
        v(t) == [content |-> t, cost |-> Some(1), usage |-> Some(UsageA)]
        p(c) == [content |-> c, cost |-> Some(2), usage |-> Some(UsageB)]
        turn_of(m, a) == [incoming |-> m, executor |-> e, aux |-> a]
    IN  CASE d = "mav_hard" ->
               { turn_of(UserHello, <<v(ApproveText), v(ApproveText)>>),
                 turn_of(ToolErr, <<v(RejectText), v(ApproveText)>>),
                 turn_of(MultiToolMessage(<<ToolOk, ToolErr>>), <<v(RejectText), v(RejectText)>>) }
          [] d \in {"map_static", "map_adaptive"} ->
               { turn_of(UserHello, p(Some(PlanA))),
                 turn_of(ToolErr, p(None)),
                 turn_of(MultiToolMessage(<<ToolOk, ToolErr>>), p(Some(PlanB))) }
          [] OTHER ->
               { turn_of(m, CHOOSE r \in SeedRouterResponses : TRUE) : m \in SeedIncomingMessages }

\* the current conversation as the caller keeps it
CurrentConversation ==
    [history |-> caller.history, state |-> state, returned |-> returned, log |-> log]

\* the inputs of the turn in progress
ScriptedTurn == caller.script[Len(log)]

\* the caller ends the conversation it has run alone, keeps its outcome and
\* opens a conversation with get_init_state(message_history) from the same
\* message history
OpenAfterAlone ==
    /\ pc \in {"idle", "raised"}
    /\ IsNone(caller.alone)
    /\ state' = NewConversationState(driver, state, caller.history)
    /\ caller' = [caller EXCEPT !.alone = Some(CurrentConversation)]
    /\ returned' = None
    /\ log' = <<>>
    /\ pc' = "idle"
    /\ UNCHANGED <<llm, llm_args, driver, tools, message, local, turn, acct>>

\* between two calls the caller turns to its other conversation, opening it
\* with get_init_state(message_history) the first time.  `stint` notes how
\* many turns the resumed conversation has had and whether the other one has
\* had a turn since.
SwitchConversation ==
    /\ pc \in {"idle", "raised"}
    /\ ~IsNone(caller.alone)
    /\ IF IsNone(caller.other)
         THEN /\ \E h \in Histories :
                    /\ state' = NewConversationState(driver, state, h)
                    /\ caller' = [caller EXCEPT
                                     !.other = Some([conversation |-> CurrentConversation,
                                                     others_turns |-> 0]),
                                     !.history = h,
                                     !.stint = [own |-> 0, meanwhile |-> FALSE]]
              /\ returned' = None
              /\ log' = <<>>
         ELSE LET resumed == Val(caller.other)
              IN  /\ state' = resumed.conversation.state
                  /\ returned' = resumed.conversation.returned
                  /\ log' = resumed.conversation.log
                  /\ caller' = [caller EXCEPT
                                   !.other = Some([conversation |-> CurrentConversation,
                                                   others_turns |-> Len(resumed.conversation.log)]),
                                   !.history = resumed.conversation.history,
                                   !.stint = [own |-> Len(resumed.conversation.log),
                                              meanwhile |-> Len(log) > resumed.others_turns]]
    /\ pc' = "idle"
    /\ UNCHANGED <<llm, llm_args, driver, tools, message, local, turn, acct>>

InitTwo ==
    /\ driver \in {"mav_hard", "map_static", "map_adaptive", "mas_2", "mas_3", "paper_multi_agent"}
    /\ \E h \in Histories :
          /\ state = get_init_state(driver, h)
          /\ caller \in { [script |-> s, history |-> h, alone |-> None, other |-> None,
                           stint |-> [own |-> 0, meanwhile |-> FALSE]] :
                            s \in [1..MaxTurnsTwo -> ScriptTurns(driver)] }
    /\ InitAgent
    /\ InitCalls

\* the next turn of the current conversation may begin
MayBegin == pc \in {"idle", "raised"} /\ Len(log) < MaxTurnsTwo

NextTwo ==
    \/ OpenAfterAlone
    \/ SwitchConversation
    \/ MayBegin /\ MAVHard_Receive(caller.script[Len(log) + 1].incoming)
    \/ MAVHard_ExecutorReturns(ScriptedTurn.executor)
    \/ MAVHard_VerifierReturns(ScriptedTurn.aux[IF local.attempt = 1 THEN 1 ELSE 2])
    \/ MayBegin /\ MAPStatic_Receive(caller.script[Len(log) + 1].incoming)
    \/ MAPStatic_PlannerReturns(ScriptedTurn.aux)
    \/ MAPStatic_ExecutorReturns(ScriptedTurn.executor)
    \/ MayBegin /\ MAPAdaptive_Receive(caller.script[Len(log) + 1].incoming)
    \/ MAPAdaptive_PlannerReturns(ScriptedTurn.aux)
    \/ MAPAdaptive_ExecutorReturns(ScriptedTurn.executor)
    \/ MayBegin /\ Router_Receive(caller.script[Len(log) + 1].incoming)
    \/ Router_RouterReturns(ScriptedTurn.aux)
    \/ Router_ExecutorReturns(ScriptedTurn.executor)

SpecTwo == InitTwo /\ [][NextTwo]_vars

\* conversation c has come to what the conversation run alone came to
SameAsAlone(c) ==
    LET a == Val(caller.alone)
    IN  (~IsNone(caller.alone) /\ c.history = a.history /\ Len(c.log) = Len(a.log)) =>
            /\ c.state = a.state
            /\ c.returned = a.returned
            /\ c.log = a.log

\* C34: conversations are isolated.  A conversation driven on an instance that
\* other conversations are driven on, however their turns are interleaved with
\* its own, comes after each of its turns to the Conversation State and the
\* returned message of the conversation that was run alone from the same
\* message history with the same incoming messages and role responses; and two
\* interleaved conversations with the same history and number of turns have
\* come to the same state and message.
C34_ConversationsIsolated ==
    /\ pc \in {"idle", "raised"} => SameAsAlone(CurrentConversation)
    /\ ~IsNone(caller.other) =>
          /\ SameAsAlone(Val(caller.other).conversation)
          /\ LET c == Val(caller.other).conversation
             IN  (pc \in {"idle", "raised"} /\ c.history = caller.history /\ Len(c.log) = Len(log)) =>
                     c.state = state /\ c.returned = returned

\* the current conversation had a turn, then the other conversation, opened
\* with another history, had one, and then the current one has had its second
\* turn; a conversation run alone for two turns from the same history is
\* there to compare with
C34_Witness ==
    /\ pc = "idle"
    /\ caller.stint.own = 1 /\ caller.stint.meanwhile /\ Len(log) = 2
    /\ ~IsNone(caller.alone)
    /\ Val(caller.alone).history = caller.history
    /\ Len(Val(caller.alone).log) = 2
    /\ Val(caller.other).conversation.history # caller.history
    /\ Len(Val(caller.other).conversation.log) = 1
    /\ Len(state.messages) >= 4
    /\ ~IsNone(returned)

(***************************************************************************)
(* Termination of a hard-verification turn.  The Executor invocation       *)
(* returns and the Verifier invocation returns or fails: a pending         *)
(* invocation is a synchronous call, so its completion stays enabled until *)
(* it is taken, which is what weak fairness asks for.                      *)
(***************************************************************************)
MaxTurnsLive == 1

LiveVerifierResponses ==
    { [content |-> t, cost |-> Some(1), usage |-> Some(UsageA)] :
        t \in { <<<<"APPROVE">>, <<"Looks", "fine.">>>>,
                <<<<"Reject">>, <<"Identity", "not", "verified.">>>>,
                <<<<"SUGGEST:">>, <<"Ask", "first.">>>> } }

\* the Executor invocation of the turn completes with a response
LiveExecutorStep == \E r \in FlowExecutorResponses : MAVHard_ExecutorReturns(r)

\* the Verifier invocation of the turn completes, with a response or with a failure
LiveVerifierStep ==
    \/ \E v \in LiveVerifierResponses : MAVHard_VerifierReturns(v)
    \/ \E e \in ErrorTexts : MAVHard_VerifierFails(e)

NextLive ==
    \/ turn < MaxTurnsLive /\ \E m \in SeedIncomingMessages : MAVHard_Receive(m)
    \/ LiveExecutorStep
    \/ LiveVerifierStep

SpecLive ==
    /\ InitHard
    /\ [][NextLive]_vars
    /\ WF_vars(LiveExecutorStep)
    /\ WF_vars(LiveVerifierStep)

\* C35: every hard-verification turn terminates.  A turn that has begun leads to
\* generate_next_message having returned a message, and no turn makes more
\* than 5 Executor or more than 5 Verifier invocations, whatever the verdicts
\* and however often the Verifier fails.
C35_TurnTerminates ==
    /\ (pc \in {"executor", "verifier"}) ~> HardTurnDone
    /\ [](ExecutorCalls <= 5 /\ VerifierCalls <= 5)

\* a returned turn of 5 Executor and 5 Verifier invocations in which the
\* Verifier has failed and every other verdict was a rejection
C35_Witness ==
    /\ HardTurnDone
    /\ ExecutorCalls = 5 /\ VerifierCalls = 5
    /\ Count(acct.trace, "verifier_failed") = 1
    /\ acct.blocks = 4

(***************************************************************************)
(* map_adaptive: the range of the step counter                             *)
(***************************************************************************)
\* C36: in the adaptive-plan driver, once plan_generated is true, the step
\* counter is between 1 and 3 after every turn: whenever a call of
\* generate_next_message has ended, steps_since_replan is 1, 2 or 3.
C36_CounterRange ==
    (driver = "map_adaptive" /\ pc \in {"idle", "raised"} /\ acct.trace # <<>>
        /\ state.plan_generated) =>
        state.steps_since_replan \in 1..3

(***************************************************************************)
(* mav_hard: when the escalation is returned                               *)
(***************************************************************************)
\* C37: in a hard-verification turn the returned message is the synthetic
\* escalation exactly if the last verdict of the turn is not Approve, which is
\* exactly if 5 Verifier invocations were made and none gave Approve; and if
\* the metadata verifier_verdict is APPROVE, the returned message is the last
\* Executor proposal.
C37_EscalationIffNotApproved ==
    HardTurnDone =>
        LET last == Val(local.verdict)
            md == returned[1].metadata[1]
            escalated == Stored(Val(returned)) = EscalationFor(tools)
        IN  /\ escalated <=> last.verdict # APPROVE
            /\ last.verdict # APPROVE <=> (VerifierCalls = 5 /\ acct.blocks = 5)
            /\ md["verifier_verdict"] = last.verdict
            /\ md["verifier_verdict"] = APPROVE =>
                   Stored(Val(returned)) = Stored(Val(acct.proposal))

\* the fifth Verifier invocation of a turn approved after four that did not:
\* the fifth proposal is returned, not the escalation
C37_Witness ==
    /\ HardTurnDone
    /\ VerifierCalls = 5 /\ acct.blocks = 4
    /\ Count(acct.trace, "verifier_failed") = 0
    /\ returned[1].metadata[1]["verifier_verdict"] = APPROVE
    /\ Stored(Val(returned)) = Stored(Val(acct.proposal))
    /\ Stored(Val(returned)) # EscalationFor(tools)

(***************************************************************************)
(* mav_hard: the transcript during a turn                                  *)
(***************************************************************************)
\* C38: during a hard-verification turn the transcript is changed twice only.
\* The turn begins by appending the incoming message(s); no step between an
\* Executor and a Verifier invocation changes the state, so no blocked
\* proposal and no feedback message is stored and every Verifier invocation
\* is handed the same transcript; a retry hands the Executor the transcript
\* followed by one feedback message, made from the latest verdict; and the
\* turn ends by appending the one assistant message it returns.
C38_TranscriptDuringTurn ==
    [][driver = "mav_hard" =>
        /\ pc \in {"idle", "raised"} =>
             state'.messages = state.messages \o IncomingOf(message')
        /\ (pc \in {"executor", "verifier"} /\ pc' \in {"executor", "verifier", "raised"}) =>
             state' = state
        /\ (pc = "verifier" /\ pc' = "executor") =>
             LET input == MAVHardExecutorInput(state', local'.retry_prompt)
                 feedback == input[Len(input)]
             IN  /\ Len(input) = Len(state.executor_system_messages) + Len(state.messages) + 1
                 /\ SubSeq(input, 1, Len(input) - 1) = state.executor_system_messages \o state.messages
                 /\ feedback.role = "user"
                 /\ Val(feedback.content).verdict = Val(acct'.verdict).verdict
                 /\ Val(feedback.content).feedback = Val(acct'.verdict).explanation
                 /\ Val(feedback.content).attempt = local.attempt
        /\ (pc = "verifier" /\ pc' = "idle") =>
             /\ state'.messages = Append(state.messages, Stored(Val(returned')))
             /\ Stored(Val(returned')).role = "assistant"
      ]_vars

\* a returned turn on a batch of two tool results in which two proposals were
\* blocked: the transcript holds the two results and one assistant message
C38_Witness ==
    /\ HardTurnDone /\ turn = 1
    /\ IsMultiTool(message)
    /\ acct.blocks = 2 /\ ExecutorCalls = 3
    /\ Len(state.messages) = 3
    /\ state.messages[3] = Stored(Val(returned))
    /\ ~IsNone(local.retry_prompt)

(***************************************************************************)
(* A failing Executor invocation, all drivers                              *)
(***************************************************************************)
\* the last k elements of seq
LastMessages(seq, k) == SubSeq(seq, Len(seq) - k + 1, Len(seq))

\* the turn in progress or just ended has made a call of kind k
TurnSaw(a, k) == \E i \in 1..Len(a.trace) : a.trace[i] = k

\* the last call of generate_next_message ended with the Executor's failure
ExecutorFailed ==
    /\ acct.trace # <<>>
    /\ acct.trace[Len(acct.trace)] = "executor_failed"
    /\ IsNone(returned)

\* C39: when the Executor invocation of a turn fails, in any driver, the
\* failure leaves the state as the turn has changed it so far: the incoming
\* message(s) at the end of the transcript and no assistant message after
\* them, the plan and the counter a Planner call of the turn has set, the
\* routing a Router call of the turn has set; nothing is returned.  The same
\* call made again appends the incoming message(s) a second time.
C39_ExecutorFailureKeepsChanges ==
    [][/\ (pc = "executor" /\ pc' = "raised") =>
            LET inc == IncomingOf(message)
            IN  /\ state' = state
                /\ IsNone(returned')
                /\ Len(state'.messages) >= Len(inc)
                /\ LastMessages(state'.messages, Len(inc)) = inc
                /\ (TurnSaw(acct, "planner") \/ TurnSaw(acct, "planner_failed")) =>
                     /\ state'.plan_generated
                     /\ ~IsNone(state'.plan)
                     /\ state'.executor_system_messages =
                            <<SystemMessage(_build_executor_system_prompt(state'.plan))>>
                     /\ driver = "map_adaptive" => state'.steps_since_replan = 0
                /\ (TurnSaw(acct, "router") \/ TurnSaw(acct, "router_failed")) =>
                     /\ state'.is_routed
                     /\ ~IsNone(state'.current_agent)
                     /\ state'.system_messages =
                            <<SystemMessage(AgentPrompt(driver, Val(state'.current_agent)))>>
       /\ (ExecutorFailed /\ turn' = turn + 1 /\ message' = message) =>
            LET inc == IncomingOf(message)
            IN  LastMessages(state'.messages, 2 * Len(inc)) = inc \o inc
      ]_vars

\* the Executor of the adaptive-plan driver failed in the turn that made the
\* plan and again when the call was repeated: the User message is stored
\* twice, the plan is kept and no assistant message is stored
C39_Witness ==
    /\ driver = "map_adaptive" /\ ExecutorFailed /\ pc = "raised"
    /\ turn = 2
    /\ state.plan_generated /\ state.steps_since_replan = 0
    /\ state.messages = <<message, message>>
    /\ message.role = "user"

(***************************************************************************)
(* Plan drivers: the Executor's system prompt follows the plan             *)
(***************************************************************************)
\* C40: in both plan drivers, between turns, executor_system_messages is one
\* system message whose content is the prompt of the current plan: the
\* template with the plan when state.plan is a text that is not empty, the
\* template without a plan when state.plan is None or the empty text.
C40_PromptFollowsPlan ==
    (driver \in {"map_static", "map_adaptive"} /\ pc \in {"idle", "raised"}) =>
        LET esm == state.executor_system_messages
        IN  /\ Len(esm) = 1
            /\ esm[1].role = "system"
            /\ IF IsNone(state.plan) \/ state.plan = Some("")
                 THEN esm[1].content =
                          [template |-> "EXECUTOR_SYSTEM_PROMPT_NO_PLAN", domain_policy |-> "policy"]
                 ELSE esm[1].content =
                          [template |-> "EXECUTOR_SYSTEM_PROMPT", domain_policy |-> "policy",
                           plan |-> Val(state.plan)]

\* the adaptive-plan driver made a plan in the first turn and a replan of the
\* second turn returned no text: the prompt is the one without a plan again
C40_Witness ==
    /\ driver = "map_adaptive" /\ pc = "idle" /\ ~IsNone(returned)
    /\ Len(log) = 2
    /\ log[1].planner /\ log[1].planner_ok /\ log[2].planner /\ log[2].planner_ok
    /\ acct.planner_content = Some(None)
    /\ state.plan = Some("")
    /\ state.executor_system_messages[1].content.template = "EXECUTOR_SYSTEM_PROMPT_NO_PLAN"

====
